---- MODULE Spec2Model ----
(***************************************************************************)
(* WhatsApp message routing and delivery pipeline of expertprospection:    *)
(* the sanitizer and phone normalizer (lib/whatsapp.tsx), the send paths   *)
(* (sendWhatsAppResponse, sendWhatsAppTemplate, sendWhatsAppMessages, the  *)
(* whatsapp edge function), the status-update handlers and the inbound     *)
(* message handlers (webhook-handler, api-chatbot, the chatbot webhook,    *)
(* processWebhookMessage / processCustomerMessage).                        *)
(*                                                                         *)
(* Text is a sequence of one-character strings, so that the string         *)
(* functions of the source are computed character by character.            *)
(***************************************************************************)
EXTENDS Integers, Sequences, FiniteSets, TLC

(***************************************************************************)
(* Character classes used by the regular expressions of the source.        *)
(***************************************************************************)
Digits == {"0", "1", "2", "3", "4", "5", "6", "7", "8", "9"}

Letters ==
  {"a", "b", "c", "d", "e", "f", "g", "h", "i", "j", "k", "l", "m",
   "n", "o", "p", "q", "r", "s", "t", "u", "v", "w", "x", "y", "z",
   "A", "B", "C", "D", "E", "F", "G", "H", "I", "J", "K", "L", "M",
   "N", "O", "P", "Q", "R", "S", "T", "U", "V", "W", "X", "Y", "Z"}

\* \s of the JavaScript regular expressions (the ASCII part and U+00A0)
WhiteSpace == {" ", "\t", "\n", "\r", "\f", "nbsp"}

\* [a-zA-Z0-9#] of the entity pattern
EntityChars == Letters \cup Digits \cup {"#"}

(***************************************************************************)
(* String helpers: startsWith, indexOf, replace(/literal/g, ...)           *)
(***************************************************************************)
StartsWith(s, p) == Len(p) <= Len(s) /\ SubSeq(s, 1, Len(p)) = p

HasChar(s, c) == \E i \in 1..Len(s) : s[i] = c

FirstIndex(s, c) ==
  CHOOSE i \in 1..Len(s) : s[i] = c /\ \A j \in 1..(i - 1) : s[j] # c

Drop(s, n) == SubSeq(s, n + 1, Len(s))

HasAny(s, chars) == \E i \in 1..Len(s) : s[i] \in chars

FirstOf(s, chars) ==
  CHOOSE i \in 1..Len(s) : s[i] \in chars /\ \A j \in 1..(i - 1) : s[j] \notin chars

\* replace(new RegExp(pat, 'g'), rep) for a literal, non-empty pat: the
\* text in front of the next first character of pat is copied as it is
RECURSIVE ReplaceAll(_, _, _)
ReplaceAll(s, pat, rep) ==
  IF ~HasChar(s, pat[1]) THEN s
  ELSE LET i == FirstIndex(s, pat[1])
           rest == Drop(s, i - 1)
       IN  SubSeq(s, 1, i - 1) \o
           (IF StartsWith(rest, pat)
            THEN rep \o ReplaceAll(Drop(rest, Len(pat)), pat, rep)
            ELSE <<pat[1]>> \o ReplaceAll(Tail(rest), pat, rep))

(***************************************************************************)
(* sanitizeWhatsAppMessage, step by step                                   *)
(***************************************************************************)
\* Step 1: message.replace(/<[^>]*>/g, '')
\* a match runs from a "<" to the next ">"; without a ">" behind the first
\* "<" nothing matches any more
RECURSIVE StripTags(_)
StripTags(s) ==
  IF ~HasChar(s, "<") THEN s
  ELSE LET i == FirstIndex(s, "<")
           rest == Drop(s, i - 1)
       IN  IF HasChar(rest, ">")
           THEN SubSeq(s, 1, i - 1) \o
                StripTags(Drop(rest, FirstIndex(rest, ">")))
           ELSE s

\* Step 2: replace(/[<>]/g, '')
StripAngles(s) == SelectSeq(s, LAMBDA c : c \notin {"<", ">"})

\* Step 3: the table htmlEntities, in the order of Object.entries
htmlEntities ==
  << << <<"&", "a", "m", "p", ";">>,           <<"&">> >>,
     << <<"&", "l", "t", ";">>,                <<"<">> >>,
     << <<"&", "g", "t", ";">>,                <<">">> >>,
     << <<"&", "q", "u", "o", "t", ";">>,      <<"\"">> >>,
     << <<"&", "#", "3", "9", ";">>,           <<"'">> >>,
     << <<"&", "n", "b", "s", "p", ";">>,      <<" ">> >>,
     << <<"&", "c", "o", "p", "y", ";">>,      <<"(c)">> >>,
     << <<"&", "r", "e", "g", ";">>,           <<"(r)">> >>,
     << <<"&", "t", "r", "a", "d", "e", ";">>, <<"(tm)">> >> >>

RECURSIVE DecodeFrom(_, _)
DecodeFrom(s, k) ==
  IF k > Len(htmlEntities) THEN s
  ELSE DecodeFrom(ReplaceAll(s, htmlEntities[k][1], htmlEntities[k][2]), k + 1)

DecodeEntities(s) == DecodeFrom(s, 1)

\* Step 4: replace(/&[a-zA-Z0-9#]+;/g, '')
RECURSIVE RunLen(_)
RunLen(s) ==
  IF s # <<>> /\ Head(s) \in EntityChars THEN 1 + RunLen(Tail(s)) ELSE 0

\* length of the entity matched at the head of s, 0 when none is
EntityLen(s) ==
  IF s # <<>> /\ Head(s) = "&"
  THEN LET n == RunLen(Tail(s))
       IN  IF n >= 1 /\ Len(s) >= n + 2 /\ s[n + 2] = ";" THEN n + 2 ELSE 0
  ELSE 0

RECURSIVE RemoveEntities(_)
RemoveEntities(s) ==
  IF ~HasChar(s, "&") THEN s
  ELSE LET i == FirstIndex(s, "&")
           rest == Drop(s, i - 1)
       IN  SubSeq(s, 1, i - 1) \o
           (IF EntityLen(rest) > 0
            THEN RemoveEntities(Drop(rest, EntityLen(rest)))
            ELSE <<"&">> \o RemoveEntities(Tail(rest)))

\* Step 5: replace(/\s+/g, ' ').trim()
RECURSIVE SkipSpace(_)
SkipSpace(s) ==
  IF s # <<>> /\ Head(s) \in WhiteSpace THEN SkipSpace(Tail(s)) ELSE s

RECURSIVE CollapseSpace(_)
CollapseSpace(s) ==
  IF ~HasAny(s, WhiteSpace) THEN s
  ELSE LET i == FirstOf(s, WhiteSpace)
       IN  SubSeq(s, 1, i - 1) \o <<" ">> \o
           CollapseSpace(SkipSpace(Drop(s, i - 1)))

RECURSIVE TrimEnd(_)
TrimEnd(s) ==
  IF s # <<>> /\ s[Len(s)] \in WhiteSpace
  THEN TrimEnd(SubSeq(s, 1, Len(s) - 1))
  ELSE s

Trim(s) == TrimEnd(SkipSpace(s))

\* the WhatsApp length limit and the length kept in front of the marker
MaxMessageLength == 4096
TruncatedLength == 4093
Ellipsis == <<".", ".", ".">>

\* Steps 1 to 5
CleanMessage(m) ==
  Trim(CollapseSpace(RemoveEntities(DecodeEntities(StripAngles(StripTags(m))))))

\* Step 6: throw new Error('Message is empty after sanitization')
SanitizeThrows(m) == m # <<>> /\ CleanMessage(m) = <<>>

\* a sanitizer that lost step 7: the cleaned text is returned at any length
sanitizeWithoutLimit(m) == IF m = <<>> THEN <<>> ELSE CleanMessage(m)

\* the value returned when the sanitizer does not throw
sanitizeWhatsAppMessage(m) ==
  IF m = <<>> THEN <<>>
  ELSE LET c == CleanMessage(m)
       IN  IF Len(c) > MaxMessageLength
           THEN SubSeq(c, 1, TruncatedLength) \o Ellipsis
           ELSE c

(***************************************************************************)
(* replaceMessageVariables: each {{name}} is replaced by its value         *)
(***************************************************************************)
Placeholder(name) == <<"{", "{">> \o name \o <<"}", "}">>

RECURSIVE ReplaceFrom(_, _, _)
ReplaceFrom(s, variables, k) ==
  IF k > Len(variables) THEN s
  ELSE ReplaceFrom(ReplaceAll(s, Placeholder(variables[k].name),
                              variables[k].value), variables, k + 1)

replaceMessageVariables(message, variables) == ReplaceFrom(message, variables, 1)

(***************************************************************************)
(* normalizePhoneNumber and the validation of sendWhatsAppMessages         *)
(***************************************************************************)
\* the keys of countryCodeMap; each maps to "+" followed by the key
CodeRange(a, b) == {c \in Digits \X Digits \X Digits :
                      LET n == 100 * (CHOOSE i \in 0..9 : ToString(i) = c[1])
                             + 10 * (CHOOSE i \in 0..9 : ToString(i) = c[2])
                             + (CHOOSE i \in 0..9 : ToString(i) = c[3])
                      IN  a <= n /\ n <= b}

countryCodeMap ==
  CodeRange(221, 221) \cup CodeRange(223, 258) \cup CodeRange(260, 269)
    \cup CodeRange(290, 291) \cup CodeRange(297, 299)

DefaultPrefix == <<"+", "2", "4", "2">>

\* a normalizer that keeps the trunk 0 in front of the national number
normalizeKeepingTrunk(phoneNumber) ==
  IF phoneNumber = <<>> THEN <<>>
  ELSE LET cleaned == SelectSeq(phoneNumber, LAMBDA c : c \in Digits \cup {"+"})
       IN  IF StartsWith(cleaned, <<"+">>) THEN cleaned
           ELSE IF Len(cleaned) >= 3 /\ SubSeq(cleaned, 1, 3) \in countryCodeMap
                THEN <<"+">> \o cleaned
           ELSE DefaultPrefix \o cleaned

normalizePhoneNumber(phoneNumber) ==
  IF phoneNumber = <<>> THEN <<>>
  ELSE LET cleaned == SelectSeq(phoneNumber, LAMBDA c : c \in Digits \cup {"+"})
       IN  IF StartsWith(cleaned, <<"+">>) THEN cleaned
           ELSE IF Len(cleaned) >= 3 /\ SubSeq(cleaned, 1, 3) \in countryCodeMap
                THEN <<"+">> \o SubSeq(cleaned, 1, 3) \o Drop(cleaned, 3)
           ELSE IF StartsWith(cleaned, <<"0">>) THEN DefaultPrefix \o Tail(cleaned)
           ELSE DefaultPrefix \o cleaned

\* /^\+[1-9]\d{1,14}$/
phoneRegex(n) ==
  /\ Len(n) >= 3
  /\ Len(n) <= 16
  /\ n[1] = "+"
  /\ n[2] \in Digits \ {"0"}
  /\ \A i \in 3..Len(n) : n[i] \in Digits

(***************************************************************************)
(* Bounds and sample inputs                                                *)
(***************************************************************************)
\* calls of the single-message send paths issued by the client, one after
\* the other
MaxCalls == 1
\* status-update events delivered by the provider
MaxUpdates == 2
\* messages of one edge-function request
MaxEdgeBatch == 2
\* messages of one sendWhatsAppMessages call
MaxBatch == 2

Users == {"u1", "u2"}
NoUser == "none"

P_CANON == <<"+", "2", "4", "2", "6">>
P_LOCAL == <<"0", "6", "1">>
P_PLUS0 == <<"+", "0", "6">>
P_EMPTY == <<>>

M_PLAIN == <<"h", "i">>
M_MARKUP == <<"<", "b", ">", "h", "i", "<", "/", "b", ">">>
M_ENTITY == <<"a", "&", "a", "m", "p", ";", "b">>
M_TAGONLY == <<"<", "b", "r", ">">>
M_EMPTY == <<>>

SampleMessages == {M_PLAIN, M_MARKUP, M_ENTITY, M_TAGONLY, M_EMPTY}

\* media argument: none, or a type with a url that is empty, malformed
\* (new URL throws) or well formed
NoMedia == [type |-> "none", url |-> "none"]
SampleMedia == {NoMedia} \cup [type : {"image"}, url : {"", "malformed", "https"}]

\* outcome of the HEAD probe of a well-formed media url
ProbeOutcomes == {"ok", "not_ok", "network_error"}

\* outcome of the provider send API: accepted, rejected (non-2xx, with the
\* expired-token code 190 or another code), or the fetch itself failing
ProviderOutcomes == {"ok", "rejected", "rejected_190", "network_error"}

\* status values carried by status-update events ("" is a missing field,
\* "read" is a provider status outside the DeliveryRecord set; "failed"
\* behaves as "delivered" does)
StatusInputs == {"", "sent", "delivered", "read"}

DeliveryStatuses == {"sent", "error", "pending", "delivered", "failed"}
TerminalStatuses == {"delivered", "failed", "error"}

PreviewLength == 100
MediaPreviewLength == 80

Min(a, b) == IF a < b THEN a ELSE b
Substring(s, n) == SubSeq(s, 1, Min(n, Len(s)))

VARIABLES
  user_whatsapp_config,  \* table: user id -> [is_active, complete, updated_at,
                         \*                    phone_number_id]
  message_logs,          \* table: sequence of DeliveryRecords
  provider,              \* calls made to the provider send-message API
  nextId,                \* next message id the provider assigns
  call,                  \* the single-message call in progress, or idle
  last,                  \* summary of the last finished operation
  ncalls,                \* calls started so far
  nupdates,              \* status-update events handled so far
  batch,                 \* the sendWhatsAppMessages call: input, pc, results
  tasks,                 \* its per-message async tasks
  now,                   \* the clock, in seconds since the batch started
  customer_conversations, \* table: sequence of ConversationMessages
  student_profiles,      \* table: sequence of profile rows
  handlers               \* the inbound-message handlings, one per process

sendVars == <<user_whatsapp_config, message_logs, provider, nextId, call,
              last, ncalls, nupdates>>

batchVars == <<batch, tasks, now>>

hookVars == <<customer_conversations, student_profiles, handlers>>

Idle == [op |-> "idle"]

\* the configuration of a call that ended before it asked for one
Unresolved == "unresolved"
NoLast == [op |-> "none"]

(***************************************************************************)
(* getWhatsAppConfig (lib/whatsapp.tsx): the user whose row is returned,   *)
(* NoUser when the function throws                                         *)
(***************************************************************************)
ActiveUsers == {u \in Users : user_whatsapp_config[u].is_active}

\* .eq('is_active', true).order('updated_at', desc).limit(1)
MostRecentActive ==
  CHOOSE u \in ActiveUsers :
    \A v \in ActiveUsers :
      user_whatsapp_config[v].updated_at <= user_whatsapp_config[u].updated_at

getWhatsAppConfig(userId) ==
  IF /\ userId # NoUser
     /\ user_whatsapp_config[userId].is_active
     /\ user_whatsapp_config[userId].complete
  THEN userId
  ELSE IF ActiveUsers # {} /\ user_whatsapp_config[MostRecentActive].complete
       THEN MostRecentActive
       ELSE NoUser

\* getWhatsAppConfig of the whatsapp edge function: the user's own row only
edgeGetWhatsAppConfig(userId) ==
  IF /\ user_whatsapp_config[userId].is_active
     /\ user_whatsapp_config[userId].complete
  THEN userId
  ELSE NoUser

(***************************************************************************)
(* sendWhatsAppResponse (lib/whatsapp.tsx)                                 *)
(***************************************************************************)
HasUrl(media) == media.type # "none" /\ media.url # ""

\* the first step that throws before the provider is called, "" when none
ResponsePrepareError(message, media, userId, probe) ==
  IF SanitizeThrows(message) THEN "Message is empty after sanitization"
  ELSE IF getWhatsAppConfig(userId) = NoUser
       THEN "No active WhatsApp configuration found"
  ELSE IF HasUrl(media) /\ (media.url = "malformed" \/ probe # "ok")
       THEN "Invalid media URL"
  ELSE ""

\* messagePayload: text.body without a media url, else the media link with
\* the sanitized text as caption when it is not blank
ResponsePayload(to, sanitized, media) ==
  [to       |-> to,
   type     |-> IF media.type # "none" THEN media.type ELSE "text",
   hasText  |-> ~HasUrl(media),
   mediaKey |-> IF HasUrl(media) THEN "link" ELSE "none",
   hasBody  |-> ~HasUrl(media) \/ Trim(sanitized) # <<>>,
   body     |-> sanitized]

ProviderCall(path, payload, raw) ==
  [path |-> path, payload |-> payload, raw |-> raw, state |-> "in_flight"]

\* the call runs up to its first await on the provider: sanitize, resolve
\* the configuration, probe the media url, then issue the send
SendResponseBegin(to, message, media, userId, probe) ==
  /\ call = Idle
  /\ ncalls < MaxCalls
  /\ ncalls' = ncalls + 1
  /\ LET err == ResponsePrepareError(message, media, userId, probe)
         sanitized == sanitizeWhatsAppMessage(message)
     IN  IF err # ""
         THEN \* catch: console.error, throw error
              /\ last' = [op |-> "sendWhatsAppResponse", outcome |-> "threw",
                          error |-> err, logged |-> <<>>,
                          userId |-> userId,
                          cfg |-> IF SanitizeThrows(message) THEN Unresolved
                                  ELSE getWhatsAppConfig(userId)]
              /\ UNCHANGED <<call, provider>>
         ELSE /\ call' = [op |-> "sendWhatsAppResponse", to |-> to,
                          sanitized |-> sanitized, media |-> media,
                          at |-> Len(provider) + 1,
                          logs0 |-> Len(message_logs),
                          userId |-> userId,
                          cfg |-> getWhatsAppConfig(userId)]
              /\ provider' = Append(provider,
                   ProviderCall("sendWhatsAppResponse",
                                ResponsePayload(to, sanitized, media),
                                message))
              /\ UNCHANGED last
  /\ UNCHANGED <<user_whatsapp_config, message_logs, nextId, nupdates,
                 batchVars, hookVars>>

ResponsePreview(sanitized, media) ==
  IF media.type # "none"
  THEN <<"[", media.type, "]", " ">> \o Substring(sanitized, MediaPreviewLength)
  ELSE Substring(sanitized, PreviewLength)

LogRecord(status, to, preview, id, error) ==
  [status |-> status, phone_number |-> to, message_preview |-> preview,
   message_id |-> id, error |-> error, updated |-> FALSE]

\* the provider answers: on success the 'sent' record is inserted, on any
\* failure the catch block rethrows without writing a record
SendResponseEnd(answer) ==
  /\ call # Idle
  /\ call.op = "sendWhatsAppResponse"
  /\ provider' = [provider EXCEPT ![call.at].state = answer]
  /\ call' = Idle
  /\ IF answer = "ok"
     THEN /\ message_logs' = Append(message_logs,
                LogRecord("sent", call.to,
                          ResponsePreview(call.sanitized, call.media),
                          nextId, ""))
          /\ nextId' = nextId + 1
          /\ last' = [op |-> "sendWhatsAppResponse", outcome |-> "returned",
                      error |-> "",
                      logged |-> SubSeq(message_logs', call.logs0 + 1,
                                        Len(message_logs')),
                      userId |-> call.userId, cfg |-> call.cfg]
     ELSE /\ last' = [op |-> "sendWhatsAppResponse", outcome |-> "threw",
                      error |-> IF answer = "network_error"
                                THEN "fetch failed"
                                ELSE "Failed to send WhatsApp response",
                      logged |-> SubSeq(message_logs, call.logs0 + 1,
                                        Len(message_logs)),
                      userId |-> call.userId, cfg |-> call.cfg]
          /\ UNCHANGED <<message_logs, nextId>>
  /\ UNCHANGED <<user_whatsapp_config, ncalls, nupdates,
                 batchVars, hookVars>>

(***************************************************************************)
(* initializeWhatsAppWebhook (lib/whatsapp.tsx): the connection test; it   *)
(* is the one place that writes is_active                                  *)
(***************************************************************************)
\* new Date().toISOString(): later than every stored updated_at
LaterThanAll ==
  1 + CHOOSE t \in {user_whatsapp_config[u].updated_at : u \in Users} :
        \A u \in Users : user_whatsapp_config[u].updated_at <= t

\* .update({ is_active, updated_at }).eq('phone_number_id', phoneNumberId)
SetActive(cfg, active) ==
  [u \in Users |->
     IF user_whatsapp_config[u].phone_number_id
          = user_whatsapp_config[cfg].phone_number_id
     THEN [user_whatsapp_config[u] EXCEPT !.is_active = active,
                                          !.updated_at = LaterThanAll]
     ELSE user_whatsapp_config[u]]

initializeWhatsAppWebhook(tokenFormatOk, answer) ==
  /\ call = Idle
  /\ ncalls < MaxCalls
  /\ ncalls' = ncalls + 1
  /\ LET cfg == getWhatsAppConfig(NoUser)
         result(outcome, error) ==
           [op |-> "initializeWhatsAppWebhook", outcome |-> outcome,
            error |-> error, logged |-> <<>>, userId |-> NoUser, cfg |-> cfg]
     IN  IF cfg = NoUser
         THEN /\ last' = result("returned", "Initialization failed")
              /\ UNCHANGED user_whatsapp_config
         ELSE IF ~tokenFormatOk
         THEN /\ last' = result("returned", "Invalid token format")
              /\ UNCHANGED user_whatsapp_config
         ELSE IF answer = "rejected_190"
         THEN /\ last' = result("returned", "Token expired")
              /\ user_whatsapp_config' = SetActive(cfg, FALSE)
         ELSE IF answer = "rejected"
         THEN /\ last' = result("returned", "API error")
              /\ UNCHANGED user_whatsapp_config
         ELSE IF answer = "network_error"
         THEN /\ last' = result("returned", "API connection failed")
              /\ UNCHANGED user_whatsapp_config
         ELSE /\ last' = result("returned", "")
              /\ user_whatsapp_config' = SetActive(cfg, TRUE)
  /\ UNCHANGED <<message_logs, provider, nextId, call, nupdates,
                 batchVars, hookVars>>

(***************************************************************************)
(* sendWhatsAppTemplate (lib/whatsapp.tsx): the record is written on both  *)
(* paths and the failure is returned, not thrown                           *)
(***************************************************************************)
TemplatePreview == <<"Template">>

SendTemplateBegin(to, userId) ==
  /\ call = Idle
  /\ ncalls < MaxCalls
  /\ ncalls' = ncalls + 1
  /\ IF getWhatsAppConfig(userId) = NoUser
     THEN /\ message_logs' = Append(message_logs,
                LogRecord("error", to, TemplatePreview, 0,
                          "No active WhatsApp configuration found"))
          /\ last' = [op |-> "sendWhatsAppTemplate", outcome |-> "returned",
                      error |-> "No active WhatsApp configuration found",
                      logged |-> <<message_logs'[Len(message_logs')]>>,
                      userId |-> userId, cfg |-> NoUser]
          /\ UNCHANGED <<call, provider>>
     ELSE /\ call' = [op |-> "sendWhatsAppTemplate", to |-> to,
                      at |-> Len(provider) + 1,
                      logs0 |-> Len(message_logs),
                      userId |-> userId,
                      cfg |-> getWhatsAppConfig(userId)]
          /\ provider' = Append(provider,
               ProviderCall("sendWhatsAppTemplate",
                            [to |-> to, type |-> "template", hasText |-> FALSE,
                             mediaKey |-> "none", hasBody |-> FALSE,
                             body |-> <<>>],
                            <<>>))
          /\ UNCHANGED <<last, message_logs>>
  /\ UNCHANGED <<user_whatsapp_config, nextId, nupdates,
                 batchVars, hookVars>>

SendTemplateEnd(answer) ==
  /\ call # Idle
  /\ call.op = "sendWhatsAppTemplate"
  /\ provider' = [provider EXCEPT ![call.at].state = answer]
  /\ call' = Idle
  /\ LET err == IF answer = "ok" THEN ""
                ELSE IF answer = "network_error" THEN "fetch failed"
                ELSE "WhatsApp API error"
     IN  /\ message_logs' = Append(message_logs,
               IF answer = "ok"
               THEN LogRecord("sent", call.to, TemplatePreview, nextId, "")
               ELSE LogRecord("error", call.to, TemplatePreview, 0, err))
         /\ nextId' = IF answer = "ok" THEN nextId + 1 ELSE nextId
         /\ last' = [op |-> "sendWhatsAppTemplate", outcome |-> "returned",
                     error |-> err,
                     logged |-> SubSeq(message_logs', call.logs0 + 1,
                                       Len(message_logs')),
                     userId |-> call.userId, cfg |-> call.cfg]
  /\ UNCHANGED <<user_whatsapp_config, ncalls, nupdates,
                 batchVars, hookVars>>

(***************************************************************************)
(* The whatsapp edge function (supabase/functions/whatsapp/index.ts)       *)
(***************************************************************************)
HttpResponse(op, status, success, hasError) ==
  [op |-> op, status |-> status, success |-> success, hasError |-> hasError,
   userId |-> NoUser, cfg |-> Unresolved]

\* the response of a request that got as far as resolving the configuration
Resolved(response, userId, cfg) ==
  [response EXCEPT !.userId = userId, !.cfg = cfg]

\* messagePayload of sendWhatsAppMessage: the text after variable
\* substitution, or the media object under the key url
EdgePayload(msg) ==
  [to       |-> msg.phoneNumber,
   type     |-> IF msg.media.type # "none" THEN msg.media.type ELSE "text",
   hasText  |-> msg.media.type = "none",
   mediaKey |-> IF HasUrl(msg.media) THEN "url" ELSE "none",
   hasBody  |-> msg.media.type = "none",
   body     |-> replaceMessageVariables(msg.message, msg.variables)]

\* request bodies: not JSON, no messages, no userId, or a list of messages
EdgeBodies(msgs) ==
  {[kind |-> k, messages |-> <<>>, userId |-> NoUser] :
     k \in {"unparsable", "no_messages", "no_user"}}
  \cup [kind : {"valid"}, messages : msgs, userId : Users]

\* the handler up to Promise.all: every send is issued at once
EdgeBegin(method, body) ==
  /\ call = Idle
  /\ ncalls < MaxCalls
  /\ ncalls' = ncalls + 1
  /\ LET early ==
           IF method = "OPTIONS" THEN HttpResponse("edge", 204, FALSE, FALSE)
           ELSE IF method # "POST" THEN HttpResponse("edge", 405, FALSE, TRUE)
           ELSE IF body.kind = "unparsable"
                THEN HttpResponse("edge", 500, FALSE, TRUE)
           ELSE IF body.kind \in {"no_messages", "no_user"}
                THEN HttpResponse("edge", 400, FALSE, TRUE)
           ELSE IF edgeGetWhatsAppConfig(body.userId) = NoUser
                THEN Resolved(HttpResponse("edge", 500, FALSE, TRUE),
                              body.userId, NoUser)
           ELSE IF body.messages = <<>>
                THEN Resolved(HttpResponse("edge", 200, TRUE, FALSE),
                              body.userId, edgeGetWhatsAppConfig(body.userId))
           ELSE NoLast
     IN  IF early # NoLast
         THEN /\ last' = early
              /\ UNCHANGED <<call, provider>>
         ELSE /\ call' = [op |-> "edge", at |-> Len(provider) + 1,
                          n |-> Len(body.messages), responded |-> FALSE,
                          userId |-> body.userId,
                          cfg |-> edgeGetWhatsAppConfig(body.userId)]
              /\ provider' = provider \o
                   [i \in 1..Len(body.messages) |->
                      ProviderCall("edge", EdgePayload(body.messages[i]),
                                   replaceMessageVariables(
                                     body.messages[i].message,
                                     body.messages[i].variables))]
              /\ UNCHANGED last
  /\ UNCHANGED <<user_whatsapp_config, message_logs, nextId, nupdates,
                 batchVars, hookVars>>

EdgeCalls == IF call # Idle /\ call.op = "edge"
             THEN call.at..(call.at + call.n - 1) ELSE {}

\* one send settles; Promise.all rejects with the first failure (500) and
\* resolves when every send succeeded (200)
EdgeAnswer(i, answer) ==
  /\ i \in EdgeCalls
  /\ provider[i].state = "in_flight"
  /\ provider' = [provider EXCEPT ![i].state = answer]
  /\ nextId' = IF answer = "ok" THEN nextId + 1 ELSE nextId
  /\ LET allDone == \A j \in EdgeCalls : provider'[j].state # "in_flight"
         allOk   == \A j \in EdgeCalls : provider'[j].state = "ok"
     IN  /\ last' = IF call.responded THEN last
                    ELSE IF answer # "ok"
                         THEN Resolved(HttpResponse("edge", 500, FALSE, TRUE),
                                       call.userId, call.cfg)
                    ELSE IF allOk
                         THEN Resolved(HttpResponse("edge", 200, TRUE, FALSE),
                                       call.userId, call.cfg)
                    ELSE last
         /\ call' = IF allDone THEN Idle
                    ELSE [call EXCEPT !.responded = @ \/ answer # "ok"]
  /\ UNCHANGED <<user_whatsapp_config, message_logs, ncalls, nupdates,
                 batchVars, hookVars>>

(***************************************************************************)
(* Status updates: processStatusUpdate (api/whatsapp-webhook.ts) and the   *)
(* status_update branch of the chatbot webhook                             *)
(***************************************************************************)
\* a filter that lost its message id: every record matches
MatchesAnyRecord(rec, messageId) == TRUE

\* .eq('message_id', messageId); 0 stands for an absent id
MatchesMessageId(rec, messageId) ==
  messageId # 0 /\ rec.message_id = messageId

\* .update({ status, updated_at }); an undefined status is not serialized
UpdateStatus(logs, messageId, status) ==
  [i \in DOMAIN logs |->
     IF MatchesMessageId(logs[i], messageId)
     THEN [logs[i] EXCEPT !.status = IF status = "" THEN @ ELSE status,
                          !.updated = TRUE]
     ELSE logs[i]]

StatusResult(op, messageId, status, storeOk, success, http) ==
  [op |-> op, messageId |-> messageId, status |-> status,
   storeOk |-> storeOk, success |-> success, http |-> http]

processStatusUpdate(messageId, status, storeOk) ==
  /\ nupdates < MaxUpdates
  /\ nupdates' = nupdates + 1
  /\ IF messageId = 0 \/ status = ""
     THEN \* throw new Error('Missing required fields: messageId, status')
          /\ last' = StatusResult("processStatusUpdate", messageId, status,
                                  storeOk, FALSE, 0)
          /\ UNCHANGED message_logs
     ELSE IF ~storeOk
     THEN /\ last' = StatusResult("processStatusUpdate", messageId, status,
                                  storeOk, FALSE, 0)
          /\ UNCHANGED message_logs
     ELSE /\ message_logs' = UpdateStatus(message_logs, messageId, status)
          /\ last' = StatusResult("processStatusUpdate", messageId, status,
                                  storeOk, TRUE, 0)
  /\ UNCHANGED <<user_whatsapp_config, provider, nextId, call, ncalls,
                 batchVars, hookVars>>

ChatbotStatusUpdate(messageId, status, storeOk) ==
  /\ nupdates < MaxUpdates
  /\ nupdates' = nupdates + 1
  /\ IF ~storeOk
     THEN /\ last' = StatusResult("ChatbotStatusUpdate", messageId, status,
                                  storeOk, FALSE, 500)
          /\ UNCHANGED message_logs
     ELSE /\ message_logs' = UpdateStatus(message_logs, messageId, status)
          /\ last' = StatusResult("ChatbotStatusUpdate", messageId, status,
                                  storeOk, TRUE, 200)
  /\ UNCHANGED <<user_whatsapp_config, provider, nextId, call, ncalls,
                 batchVars, hookVars>>

(***************************************************************************)
(* sendWhatsAppMessages (lib/whatsapp.tsx)                                 *)
(***************************************************************************)
NoBatch == [pc |-> "idle"]

\* the pacing delay of setTimeout(resolve, index * 1000), in seconds per
\* position
PacingDelay == 1

MessageResult(status, phoneNumber, message, messageId, error) ==
  [status |-> status, phoneNumber |-> phoneNumber, message |-> message,
   messageId |-> messageId, error |-> error]

\* validation that lost its filter: every entry is normalized and kept
AllNormalized(messages) ==
  [i \in DOMAIN messages |->
     [messages[i] EXCEPT !.phoneNumber = normalizePhoneNumber(@)]]

\* messages.map(normalize).filter(phoneRegex.test)
RECURSIVE ValidMessages(_)
ValidMessages(messages) ==
  IF messages = <<>> THEN <<>>
  ELSE LET msg == [Head(messages) EXCEPT
                     !.phoneNumber = normalizePhoneNumber(@)]
       IN  IF phoneRegex(msg.phoneNumber)
           THEN <<msg>> \o ValidMessages(Tail(messages))
           ELSE ValidMessages(Tail(messages))

\* first replace variables, then sanitize
ProcessedText(msg) ==
  sanitizeWhatsAppMessage(replaceMessageVariables(msg.message, msg.variables))

ProcessedThrows(msg) ==
  SanitizeThrows(replaceMessageVariables(msg.message, msg.variables))

\* the error that makes the whole call fall into the outer catch, "" if none
BatchError(messages, userId) ==
  IF getWhatsAppConfig(userId) = NoUser
  THEN "No active WhatsApp configuration found"
  ELSE IF ValidMessages(messages) = <<>>
       THEN "No valid phone numbers found"
  ELSE IF \E i \in DOMAIN ValidMessages(messages) :
            ProcessedThrows(ValidMessages(messages)[i])
       THEN "Message is empty after sanitization"
  ELSE ""

\* the synchronous part: configuration, validation, sanitization, and the
\* start of one async task per processed message, each waiting on its timer
BatchStart(messages, userId) ==
  /\ batch = NoBatch
  /\ LET err == BatchError(messages, userId)
         valid == ValidMessages(messages)
     IN  IF err # ""
         THEN \* outer catch: one error result per input message
              /\ batch' = [pc |-> "done", messages |-> messages,
                           results |->
                             [i \in DOMAIN messages |->
                                MessageResult("error", messages[i].phoneNumber,
                                              messages[i].message, 0, err)]]
              /\ tasks' = <<>>
         ELSE /\ batch' = [pc |-> "running", messages |-> messages,
                           results |-> <<>>]
              /\ tasks' = [i \in DOMAIN valid |->
                             [msg |-> [valid[i] EXCEPT
                                         !.message = ProcessedText(valid[i])],
                              raw |-> replaceMessageVariables(
                                        valid[i].message, valid[i].variables),
                              pc |-> "delay",
                              wake |-> (i - 1) * PacingDelay,
                              at |-> 0,
                              result |-> NoLast]]
  /\ now' = 0
  /\ UNCHANGED <<sendVars, hookVars>>

BatchPayload(msg) ==
  [to       |-> msg.phoneNumber,
   type     |-> IF msg.media.type # "none" THEN msg.media.type ELSE "text",
   hasText  |-> ~HasUrl(msg.media),
   mediaKey |-> IF HasUrl(msg.media) THEN "link" ELSE "none",
   hasBody  |-> ~HasUrl(msg.media) \/ Trim(msg.message) # <<>>,
   body     |-> msg.message]

\* inner catch: the error record is inserted and an error result returned
TaskFails(i, err) ==
  /\ message_logs' = Append(message_logs,
        LogRecord("error", tasks[i].msg.phoneNumber,
                  Substring(tasks[i].msg.message, PreviewLength), 0, err))
  /\ tasks' = [tasks EXCEPT
        ![i].pc = "done",
        ![i].result = MessageResult("error", tasks[i].msg.phoneNumber,
                                    tasks[i].msg.message, 0, err)]

\* fetch(`.../${phoneNumberId}/messages`) is issued
TaskIssuesSend(i) ==
  /\ provider' = Append(provider,
        ProviderCall("sendWhatsAppMessages", BatchPayload(tasks[i].msg),
                     tasks[i].raw))
  /\ tasks' = [tasks EXCEPT ![i].pc = "send", ![i].at = Len(provider) + 1]

\* time passes while some timer is still pending
Tick ==
  /\ batch.pc = "running"
  /\ \E i \in DOMAIN tasks : tasks[i].pc = "delay" /\ tasks[i].wake > now
  /\ now' = now + 1
  /\ UNCHANGED <<sendVars, batch, tasks, hookVars>>

\* the timer of task i fires: the payload is built and either the media
\* url is probed or the send is issued
TimerFires(i) ==
  /\ batch.pc = "running"
  /\ i \in DOMAIN tasks
  /\ tasks[i].pc = "delay"
  /\ tasks[i].wake <= now
  /\ IF HasUrl(tasks[i].msg.media)
     THEN IF tasks[i].msg.media.url = "malformed"
          THEN TaskFails(i, "Invalid media URL") /\ UNCHANGED provider
          ELSE /\ tasks' = [tasks EXCEPT ![i].pc = "probe"]
               /\ UNCHANGED <<provider, message_logs>>
     ELSE TaskIssuesSend(i) /\ UNCHANGED message_logs
  /\ UNCHANGED <<user_whatsapp_config, nextId, call, last, ncalls, nupdates,
                 batch, now, hookVars>>

\* the HEAD probe of the media url answers
ProbeAnswers(i, probe) ==
  /\ batch.pc = "running"
  /\ i \in DOMAIN tasks
  /\ tasks[i].pc = "probe"
  /\ IF probe = "ok"
     THEN TaskIssuesSend(i) /\ UNCHANGED message_logs
     ELSE TaskFails(i, "Invalid media URL") /\ UNCHANGED provider
  /\ UNCHANGED <<user_whatsapp_config, nextId, call, last, ncalls, nupdates,
                 batch, now, hookVars>>

\* the provider answers the send of task i
ProviderAnswers(i, answer) ==
  /\ batch.pc = "running"
  /\ i \in DOMAIN tasks
  /\ tasks[i].pc = "send"
  /\ provider' = [provider EXCEPT ![tasks[i].at].state = answer]
  /\ IF answer = "ok"
     THEN /\ message_logs' = Append(message_logs,
                LogRecord("sent", tasks[i].msg.phoneNumber,
                          Substring(tasks[i].msg.message, PreviewLength),
                          nextId, ""))
          /\ tasks' = [tasks EXCEPT
                ![i].pc = "done",
                ![i].result = MessageResult("success",
                                tasks[i].msg.phoneNumber, tasks[i].msg.message,
                                nextId, "")]
          /\ nextId' = nextId + 1
     ELSE /\ TaskFails(i, IF answer = "network_error" THEN "fetch failed"
                          ELSE "WhatsApp API error")
          /\ UNCHANGED nextId
  /\ UNCHANGED <<user_whatsapp_config, call, last, ncalls, nupdates, batch,
                 now, hookVars>>

\* Promise.allSettled resolves: the results of the tasks, in task order
BatchFinish ==
  /\ batch.pc = "running"
  /\ \A i \in DOMAIN tasks : tasks[i].pc = "done"
  /\ batch' = [batch EXCEPT !.pc = "done",
                            !.results = [i \in DOMAIN tasks |-> tasks[i].result]]
  /\ UNCHANGED <<sendVars, tasks, now, hookVars>>

(***************************************************************************)
(* determineChatbotType (supabase/functions/webhook-handler/index.ts)      *)
(***************************************************************************)
UpperCase == <<"A", "B", "C", "D", "E", "F", "G", "H", "I", "J", "K", "L", "M",
               "N", "O", "P", "Q", "R", "S", "T", "U", "V", "W", "X", "Y", "Z",
               "É">>
LowerCase == <<"a", "b", "c", "d", "e", "f", "g", "h", "i", "j", "k", "l", "m",
               "n", "o", "p", "q", "r", "s", "t", "u", "v", "w", "x", "y", "z",
               "é">>

ToLowerChar(c) ==
  IF \E i \in DOMAIN UpperCase : UpperCase[i] = c
  THEN LowerCase[CHOOSE i \in DOMAIN UpperCase : UpperCase[i] = c]
  ELSE c

toLowerCase(s) == [i \in DOMAIN s |-> ToLowerChar(s[i])]

\* String.prototype.includes
Includes(s, kw) ==
  \E i \in 1..(Len(s) - Len(kw) + 1) : SubSeq(s, i, i + Len(kw) - 1) = kw

educationKeywords ==
  <<<<"l", "e", "a", "r", "n">>,
     <<"s", "t", "u", "d", "y">>,
     <<"c", "o", "u", "r", "s", "e">>,
     <<"e", "d", "u", "c", "a", "t", "i", "o", "n">>,
     <<"s", "c", "h", "o", "o", "l">>,
     <<"h", "o", "m", "e", "w", "o", "r", "k">>,
     <<"a", "s", "s", "i", "g", "n", "m", "e", "n", "t">>,
     <<"q", "u", "e", "s", "t", "i", "o", "n">>,
     <<"a", "p", "p", "r", "e", "n", "d", "r", "e">>,
     <<"é", "t", "u", "d", "i", "e", "r">>,
     <<"c", "o", "u", "r", "s">>,
     <<"é", "d", "u", "c", "a", "t", "i", "o", "n">>,
     <<"é", "c", "o", "l", "e">>,
     <<"d", "e", "v", "o", "i", "r">>,
     <<"e", "x", "e", "r", "c", "i", "c", "e">>>>

quizKeywords ==
  <<<<"q", "u", "i", "z">>,
     <<"g", "a", "m", "e">>,
     <<"t", "e", "s", "t">>,
     <<"p", "l", "a", "y">>,
     <<"c", "h", "a", "l", "l", "e", "n", "g", "e">>,
     <<"q", "u", "e", "s", "t", "i", "o", "n">>,
     <<"a", "n", "s", "w", "e", "r">>,
     <<"j", "e", "u">>,
     <<"d", "é", "f", "i">>,
     <<"r", "é", "p", "o", "n", "s", "e">>,
     <<"q", "u", "e", "s", "t", "i", "o", "n", "n", "a", "i", "r", "e">>>>

\* a classifier that looks for the quiz keywords first
quizBeforeEducation(message) ==
  LET lowerMessage == toLowerCase(message)
  IN  IF \E k \in DOMAIN quizKeywords :
           Includes(lowerMessage, quizKeywords[k])
      THEN "quiz"
      ELSE IF \E k \in DOMAIN educationKeywords :
                Includes(lowerMessage, educationKeywords[k])
           THEN "education"
           ELSE "client"

determineChatbotType(message) ==
  LET lowerMessage == toLowerCase(message)
  IN  IF \E k \in DOMAIN educationKeywords :
           Includes(lowerMessage, educationKeywords[k])
      THEN "education"
      ELSE IF \E k \in DOMAIN quizKeywords :
                Includes(lowerMessage, quizKeywords[k])
           THEN "quiz"
           ELSE "client"

(***************************************************************************)
(* The inbound-message handlers.  Each handling is a process; a step is    *)
(* the code between two awaits on the record store or on a collaborator.   *)
(***************************************************************************)
Procs == {"p1", "p2"}

\* the reply used when the completion is empty, and the reply returned by
\* the catch block of processCustomerMessage
FallbackReply ==
  <<"J", "e", " ", "s", "u", "i", "s", " ", "d", "é", "s", "o", "l",
  "é", ",", " ", "j", "e", " ", "n", "'", "a", "i", " ", "p", "a",
  "s", " ", "p", "u", " ", "g", "é", "n", "é", "r", "e", "r", " ",
  "u", "n", "e", " ", "r", "é", "p", "o", "n", "s", "e", " ", "a",
  "p", "p", "r", "o", "p", "r", "i", "é", "e", ".">>

TechnicalReply ==
  <<"D", "é", "s", "o", "l", "é", ",", " ", "j", "e", " ", "r", "e",
  "n", "c", "o", "n", "t", "r", "e", " ", "d", "e", "s", " ", "d",
  "i", "f", "f", "i", "c", "u", "l", "t", "é", "s", " ", "t", "e",
  "c", "h", "n", "i", "q", "u", "e", "s", ".", " ", "V", "e", "u",
  "i", "l", "l", "e", "z", " ", "r", "é", "e", "s", "s", "a", "y",
  "e", "r", " ", "p", "l", "u", "s", " ", "t", "a", "r", "d", ".">>

\* completions of the LLM collaborator: a text, an empty completion, or the
\* call throwing
LlmOutcomes == {"text", "empty", "throws"}
LlmText == M_MARKUP

\* createGroqClient, after the lookup of a user id: no user with a Groq
\* configuration, no api key for the user, or a client
GroqOutcomes == {"no_user", "no_client", "ok"}

NoResult == [http |-> 0, json |-> FALSE, success |-> FALSE, hasError |-> FALSE]

\* an HTTP response with a JSON body
JsonResponse(http, success) ==
  [http |-> http, json |-> TRUE, success |-> success, hasError |-> http >= 400]

\* 204 with the CORS headers and no body
Preflight == [http |-> 204, json |-> FALSE, success |-> FALSE, hasError |-> FALSE]

\* the handler rejects: the runtime answers 500 with a plain-text body
Crashed == [http |-> 500, json |-> FALSE, success |-> FALSE, hasError |-> FALSE]

\* the value returned by processWebhookMessage / processCustomerMessage
Returned(success) ==
  [http |-> 0, json |-> TRUE, success |-> success, hasError |-> ~success]

IdleHandler ==
  [kind |-> "none", pc |-> "idle", from |-> <<>>, text |-> <<>>,
   ctype |-> "", hasUserId |-> FALSE, response |-> <<>>, llm |-> "none",
   creds |-> FALSE, savedUser |-> 0, savedBot |-> 0, after |-> {},
   selectFailed |-> FALSE, result |-> NoResult,
   method |-> "", parsable |-> FALSE, timestamp |-> 0]

Finished(p) == handlers[p].pc = "done"

\* the handling of p ends with result r
Finish(p, r) == handlers' = [handlers EXCEPT ![p].pc = "done", ![p].result = r]

Goto(p, pc) == handlers' = [handlers EXCEPT ![p].pc = pc]

\* created_at is the clock of the server, new Date(), unless the handler
\* sets it
ConversationRow(p, phone, content, sender, intent) ==
  [phone_number |-> phone, content |-> content, sender |-> sender,
   intent |-> intent, by |-> p, created_at |-> now]

\* created_at: new Date(timestamp * 1000), the time the provider gave
ReceivedAt(row, timestamp) == [row EXCEPT !.created_at = timestamp]

ProfileRow(phone, userId, by) ==
  [phone_number |-> phone, user_id |-> userId, by |-> by]

\* rows of student_profiles with this phone number
ProfilesOf(phone) ==
  {i \in DOMAIN student_profiles : student_profiles[i].phone_number = phone}

\* the row handed back by .maybeSingle() / .single(): defined when exactly
\* one row matches
OnlyProfile(phone) == student_profiles[CHOOSE i \in ProfilesOf(phone) : TRUE]

\* a handling starts: remember which handlings had already finished
Started(p, kind, from, text) ==
  [IdleHandler EXCEPT !.kind = kind, !.from = from, !.text = text,
                      !.after = {q \in Procs : Finished(q)}]

\* the handling h of a request of the given method, whose body is or is not
\* JSON
Asked(method, parsable, h) ==
  [h EXCEPT !.method = method, !.parsable = parsable]

HookFrame ==
  UNCHANGED <<user_whatsapp_config, message_logs, call, last, ncalls,
              nupdates, batchVars>>

At(p, kind, pc) == handlers[p].kind = kind /\ handlers[p].pc = pc

\* a field test that forgot the text
MissingFrom(from, text) == from = <<>>

\* !data.from || !data.text
Missing(from, text) == from = <<>> \/ text = <<>>

\* the reply taken from a completion: content || fallback
ReplyOf(outcome) == IF outcome = "text" THEN LlmText ELSE FallbackReply

(***************************************************************************)
(* webhook-handler (supabase/functions/webhook-handler/index.ts)           *)
(***************************************************************************)
WH == "webhook-handler"

WH_Receive(p, method, parsable, from, text) ==
  /\ handlers[p].pc = "idle"
  /\ LET unread == Started(p, WH, <<>>, <<>>)
         h == Started(p, WH, from, text)
     IN  handlers' = [handlers EXCEPT ![p] = Asked(method, parsable,
           IF method = "OPTIONS"
           THEN [unread EXCEPT !.pc = "done", !.result = Preflight]
           ELSE IF method # "POST"
           THEN [unread EXCEPT !.pc = "done",
                               !.result = JsonResponse(405, FALSE)]
           ELSE IF ~parsable
           THEN [unread EXCEPT !.pc = "done",
                               !.result = JsonResponse(500, FALSE)]
           ELSE IF Missing(from, text)
           THEN [h EXCEPT !.pc = "done", !.result = JsonResponse(400, FALSE)]
           ELSE [h EXCEPT !.pc = "saveUser"])]
  /\ UNCHANGED <<customer_conversations, student_profiles, provider, nextId>>
  /\ HookFrame

\* insert into customer_conversations; saveError is thrown
WH_SaveUser(p, storeOk) ==
  /\ At(p, WH, "saveUser")
  /\ IF storeOk
     THEN /\ customer_conversations' = Append(customer_conversations,
                ConversationRow(p, handlers[p].from, handlers[p].text,
                                "user", ""))
          /\ handlers' = [handlers EXCEPT ![p].pc = "selectProfile",
                                          ![p].savedUser = @ + 1]
     ELSE /\ Finish(p, JsonResponse(500, FALSE))
          /\ UNCHANGED customer_conversations
  /\ UNCHANGED <<student_profiles, provider, nextId>>
  /\ HookFrame

\* select ... .maybeSingle(): an error (also when several rows match) is
\* thrown; a row with a user_id leads on, anything else to the insert
WH_SelectProfile(p, storeOk) ==
  /\ At(p, WH, "selectProfile")
  /\ LET n == Cardinality(ProfilesOf(handlers[p].from))
     IN  IF ~storeOk \/ n > 1
         THEN Finish(p, JsonResponse(500, FALSE))
         ELSE IF n = 1 /\ OnlyProfile(handlers[p].from).user_id # ""
         THEN handlers' = [handlers EXCEPT ![p].pc = "groq",
                                           ![p].hasUserId = TRUE]
         ELSE Goto(p, "insertProfile")
  /\ UNCHANGED <<customer_conversations, student_profiles, provider, nextId>>
  /\ HookFrame

\* the profile is inserted; the assignment userProfile = newProfile to the
\* const binding then throws a TypeError, which the catch answers with 500
WH_InsertProfile(p, storeOk) ==
  /\ At(p, WH, "insertProfile")
  /\ student_profiles' =
       IF storeOk
       THEN Append(student_profiles, ProfileRow(handlers[p].from, "", p))
       ELSE student_profiles
  /\ Finish(p, JsonResponse(500, FALSE))
  /\ UNCHANGED <<customer_conversations, provider, nextId>>
  /\ HookFrame

\* determineChatbotType, then createGroqClient(userProfile.user_id)
WH_Groq(p, outcome) ==
  /\ At(p, WH, "groq")
  /\ outcome # "no_user"
  /\ IF outcome = "ok"
     THEN handlers' = [handlers EXCEPT
            ![p].pc = "llm",
            ![p].ctype = determineChatbotType(handlers[p].text)]
     ELSE Finish(p, JsonResponse(500, FALSE))
  /\ UNCHANGED <<customer_conversations, student_profiles, provider, nextId>>
  /\ HookFrame

\* groq.chat.completions.create: a throw reaches the catch (500)
WH_LLM(p, outcome) ==
  /\ At(p, WH, "llm")
  /\ IF outcome = "throws"
     THEN handlers' = [handlers EXCEPT ![p].pc = "done", ![p].llm = outcome,
                         ![p].result = JsonResponse(500, FALSE)]
     ELSE handlers' = [handlers EXCEPT ![p].pc = "saveBot", ![p].llm = outcome,
                         ![p].response = ReplyOf(outcome)]
  /\ UNCHANGED <<customer_conversations, student_profiles, provider, nextId>>
  /\ HookFrame

WH_SaveBot(p, storeOk) ==
  /\ At(p, WH, "saveBot")
  /\ IF storeOk
     THEN /\ customer_conversations' = Append(customer_conversations,
                ConversationRow(p, handlers[p].from, handlers[p].response,
                                "bot", handlers[p].ctype))
          /\ handlers' = [handlers EXCEPT ![p].pc = "done",
                            ![p].savedBot = @ + 1,
                            ![p].result = JsonResponse(200, TRUE)]
     ELSE /\ Finish(p, JsonResponse(500, FALSE))
          /\ UNCHANGED customer_conversations
  /\ UNCHANGED <<student_profiles, provider, nextId>>
  /\ HookFrame

(***************************************************************************)
(* api-chatbot (supabase/functions/api-chatbot/index.ts)                   *)
(***************************************************************************)
AC == "api-chatbot"

MaxRequestText == 4000

AC_Receive(p, method, parsable, fieldsOk, phone, text) ==
  /\ handlers[p].pc = "idle"
  /\ LET unread == Started(p, AC, <<>>, <<>>)
         h == Started(p, AC, phone, text)
     IN  handlers' = [handlers EXCEPT ![p] = Asked(method, parsable,
           IF method = "OPTIONS"
           THEN [unread EXCEPT !.pc = "done", !.result = Preflight]
           ELSE IF method # "POST"
           THEN [unread EXCEPT !.pc = "done",
                               !.result = JsonResponse(405, FALSE)]
           ELSE IF ~parsable
           THEN [unread EXCEPT !.pc = "done",
                               !.result = JsonResponse(400, FALSE)]
           ELSE IF Trim(text) = <<>> \/ ~fieldsOk \/ Len(text) > MaxRequestText
           THEN [h EXCEPT !.pc = "done", !.result = JsonResponse(400, FALSE)]
           ELSE [h EXCEPT !.pc = "saveUser", !.ctype = "client"])]
  /\ UNCHANGED <<customer_conversations, student_profiles, provider, nextId>>
  /\ HookFrame

\* saveError is logged and processing continues
AC_SaveUser(p, storeOk) ==
  /\ At(p, AC, "saveUser")
  /\ IF storeOk
     THEN /\ customer_conversations' = Append(customer_conversations,
                ConversationRow(p, handlers[p].from, handlers[p].text,
                                "user", handlers[p].ctype))
          /\ handlers' = [handlers EXCEPT ![p].pc = "groq",
                                          ![p].savedUser = @ + 1]
     ELSE /\ Goto(p, "groq")
          /\ UNCHANGED customer_conversations
  /\ UNCHANGED <<student_profiles, provider, nextId>>
  /\ HookFrame

\* createGroqClient('system'): a failure is answered with 503
AC_Groq(p, outcome) ==
  /\ At(p, AC, "groq")
  /\ outcome # "no_user"
  /\ IF outcome = "ok"
     THEN Goto(p, "llm")
     ELSE Finish(p, JsonResponse(503, FALSE))
  /\ UNCHANGED <<customer_conversations, student_profiles, provider, nextId>>
  /\ HookFrame

\* the completion: a throw reaches the catch block; a reply reaches
\* Date.now() - startTime, where startTime is declared nowhere, which
\* throws a ReferenceError into the same catch block.  The catch block
\* reads requestData, which is declared inside the try block: it throws a
\* ReferenceError itself, so the handler rejects and no bot message is saved
AC_LLM(p, outcome) ==
  /\ At(p, AC, "llm")
  /\ handlers' = [handlers EXCEPT ![p].pc = "done", ![p].llm = outcome,
                    ![p].response = IF outcome = "throws" THEN <<>>
                                    ELSE ReplyOf(outcome),
                    ![p].result = Crashed]
  /\ UNCHANGED <<customer_conversations, student_profiles, provider, nextId>>
  /\ HookFrame

(***************************************************************************)
(* the chatbot webhook selected by URL path (src/unnamed/part_002)         *)
(***************************************************************************)
P2 == "chatbot-webhook"

ChatbotTypes == {"client", "education", "quiz"}

\* the method is not examined beyond OPTIONS; creds: phoneNumberId and a
\* bearer token came with the request
P2_Receive(p, method, parsable, chatbotType, from, text, creds, timestamp) ==
  /\ handlers[p].pc = "idle"
  /\ LET unread == Started(p, P2, <<>>, <<>>)
         typed == [unread EXCEPT !.ctype = chatbotType]
         h == [Started(p, P2, from, text) EXCEPT !.ctype = chatbotType,
                                                 !.timestamp = timestamp]
     IN  handlers' = [handlers EXCEPT ![p] = Asked(method, parsable,
           IF method = "OPTIONS"
           THEN [unread EXCEPT !.pc = "done", !.result = Preflight]
           ELSE IF ~parsable
           THEN [typed EXCEPT !.pc = "done",
                              !.result = JsonResponse(500, FALSE)]
           ELSE IF chatbotType \notin ChatbotTypes
           THEN [typed EXCEPT !.pc = "done",
                              !.result = JsonResponse(400, FALSE)]
           ELSE IF Missing(from, text)
           THEN [h EXCEPT !.pc = "done", !.result = JsonResponse(400, FALSE)]
           ELSE [h EXCEPT !.pc = "saveUser", !.creds = creds])]
  /\ UNCHANGED <<customer_conversations, student_profiles, provider, nextId>>
  /\ HookFrame

P2_SaveUser(p, storeOk) ==
  /\ At(p, P2, "saveUser")
  /\ IF storeOk
     THEN /\ customer_conversations' = Append(customer_conversations,
                ReceivedAt(ConversationRow(p, handlers[p].from,
                                           handlers[p].text, "user", ""),
                           handlers[p].timestamp))
          /\ handlers' = [handlers EXCEPT
               ![p].pc = IF handlers[p].ctype = "education"
                         THEN "selectProfile" ELSE "groq",
               ![p].savedUser = @ + 1]
     ELSE /\ Finish(p, JsonResponse(500, FALSE))
          /\ UNCHANGED customer_conversations
  /\ UNCHANGED <<student_profiles, provider, nextId>>
  /\ HookFrame

\* select ... .maybeSingle(): studentError is only logged, and a missing
\* student leads to the insert
P2_SelectProfile(p, storeOk) ==
  /\ At(p, P2, "selectProfile")
  /\ LET n == Cardinality(ProfilesOf(handlers[p].from))
     IN  IF storeOk /\ n = 1
         THEN handlers' = [handlers EXCEPT
                ![p].pc = "groq",
                ![p].hasUserId = OnlyProfile(handlers[p].from).user_id # ""]
         ELSE handlers' = [handlers EXCEPT
                ![p].pc = "insertProfile",
                ![p].selectFailed = ~storeOk]
  /\ UNCHANGED <<customer_conversations, student_profiles, provider, nextId>>
  /\ HookFrame

\* profileError is only logged
P2_InsertProfile(p, storeOk) ==
  /\ At(p, P2, "insertProfile")
  /\ student_profiles' =
       IF storeOk
       THEN Append(student_profiles, ProfileRow(handlers[p].from, "", p))
       ELSE student_profiles
  /\ Goto(p, "groq")
  /\ UNCHANGED <<customer_conversations, provider, nextId>>
  /\ HookFrame

\* the userId lookups and createGroqClient(userId); every failure is thrown
P2_Groq(p, outcome) ==
  /\ At(p, P2, "groq")
  /\ outcome = "no_user" => ~handlers[p].hasUserId
  /\ IF outcome = "ok"
     THEN Goto(p, "llm")
     ELSE Finish(p, JsonResponse(500, FALSE))
  /\ UNCHANGED <<customer_conversations, student_profiles, provider, nextId>>
  /\ HookFrame

P2_LLM(p, outcome) ==
  /\ At(p, P2, "llm")
  /\ IF outcome = "throws"
     THEN handlers' = [handlers EXCEPT ![p].pc = "done", ![p].llm = outcome,
                         ![p].result = JsonResponse(500, FALSE)]
     ELSE handlers' = [handlers EXCEPT ![p].pc = "saveBot", ![p].llm = outcome,
                         ![p].response = ReplyOf(outcome)]
  /\ UNCHANGED <<customer_conversations, student_profiles, provider, nextId>>
  /\ HookFrame

P2_SaveBot(p, storeOk) ==
  /\ At(p, P2, "saveBot")
  /\ IF storeOk
     THEN /\ customer_conversations' = Append(customer_conversations,
                ConversationRow(p, handlers[p].from, handlers[p].response,
                                "bot", handlers[p].ctype))
          /\ handlers' = [handlers EXCEPT
               ![p].pc = IF handlers[p].creds THEN "send" ELSE "done",
               ![p].savedBot = @ + 1,
               ![p].result = IF handlers[p].creds THEN NoResult
                             ELSE JsonResponse(200, TRUE)]
     ELSE /\ Finish(p, JsonResponse(500, FALSE))
          /\ UNCHANGED customer_conversations
  /\ UNCHANGED <<student_profiles, provider, nextId>>
  /\ HookFrame

\* the reply is posted to the provider as generated; the provider's answer
\* is not read and a network error is only logged
P2_Send(p, answer) ==
  /\ At(p, P2, "send")
  /\ provider' = Append(provider,
       [ProviderCall(P2,
          [to |-> handlers[p].from, type |-> "text", hasText |-> TRUE,
           mediaKey |-> "none", hasBody |-> TRUE,
           body |-> handlers[p].response],
          handlers[p].response) EXCEPT !.state = answer])
  /\ Finish(p, JsonResponse(200, TRUE))
  /\ UNCHANGED <<customer_conversations, student_profiles, nextId>>
  /\ HookFrame

(***************************************************************************)
(* processWebhookMessage (src/api/whatsapp-webhook.ts) and                 *)
(* processCustomerMessage / getOrCreateStudentProfile (lib/education)      *)
(***************************************************************************)
PW == "processWebhookMessage"
PC == "processCustomerMessage"

PW_Receive(p, from, text, timestamp) ==
  /\ handlers[p].pc = "idle"
  /\ LET h == [Started(p, PW, from, text) EXCEPT !.timestamp = timestamp]
     IN  handlers' = [handlers EXCEPT ![p] =
           IF Missing(from, text)
           THEN [h EXCEPT !.pc = "done", !.result = Returned(FALSE)]
           ELSE [h EXCEPT !.pc = "saveUser"]]
  /\ UNCHANGED <<customer_conversations, student_profiles, provider, nextId>>
  /\ HookFrame

\* saveError is only logged
PW_SaveUser(p, storeOk) ==
  /\ At(p, PW, "saveUser")
  /\ IF storeOk
     THEN /\ customer_conversations' = Append(customer_conversations,
                ReceivedAt(ConversationRow(p, handlers[p].from,
                                           handlers[p].text, "user", ""),
                           handlers[p].timestamp))
          /\ handlers' = [handlers EXCEPT ![p].pc = "lookupProfile",
                                          ![p].savedUser = @ + 1]
     ELSE /\ Goto(p, "lookupProfile")
          /\ UNCHANGED customer_conversations
  /\ UNCHANGED <<student_profiles, provider, nextId>>
  /\ HookFrame

\* select ... .maybeSingle(): without a row the result is 'User not found'
PW_LookupProfile(p, storeOk) ==
  /\ At(p, PW, "lookupProfile")
  /\ IF storeOk /\ Cardinality(ProfilesOf(handlers[p].from)) = 1
     THEN Goto(p, "getProfile")
     ELSE Finish(p, Returned(FALSE))
  /\ UNCHANGED <<customer_conversations, student_profiles, provider, nextId>>
  /\ HookFrame

\* processCustomerMessage called on its own
PC_Call(p, from, text) ==
  /\ handlers[p].pc = "idle"
  /\ handlers' = [handlers EXCEPT ![p] =
       [Started(p, PC, from, text) EXCEPT !.pc = "getProfile"]]
  /\ UNCHANGED <<customer_conversations, student_profiles, provider, nextId>>
  /\ HookFrame

InEducation(p, pc) == handlers[p].kind \in {PW, PC} /\ handlers[p].pc = pc

\* the catch of processCustomerMessage: the apology is returned, not saved
TechnicalDifficulties(p) ==
  handlers' = [handlers EXCEPT ![p].pc = "done",
                               ![p].response = TechnicalReply,
                               ![p].result = Returned(TRUE)]

\* checkSubscriptionStatus, then the select of getOrCreateStudentProfile
\* (.single(): a row only when exactly one matches, errors are not read)
PC_GetProfile(p, subscriptionOk, storeOk) ==
  /\ InEducation(p, "getProfile")
  /\ LET n == Cardinality(ProfilesOf(handlers[p].from))
     IN  IF ~subscriptionOk
         THEN TechnicalDifficulties(p)
         ELSE IF storeOk /\ n = 1
         THEN handlers' = [handlers EXCEPT
                ![p].pc = "groq",
                ![p].hasUserId = OnlyProfile(handlers[p].from).user_id # ""]
         ELSE handlers' = [handlers EXCEPT
                ![p].pc = "createProfile",
                ![p].selectFailed = ~storeOk]
  /\ UNCHANGED <<customer_conversations, student_profiles, provider, nextId>>
  /\ HookFrame

\* the insert of getOrCreateStudentProfile: an error is thrown
PC_CreateProfile(p, storeOk) ==
  /\ InEducation(p, "createProfile")
  /\ IF storeOk
     THEN /\ student_profiles' =
               Append(student_profiles, ProfileRow(handlers[p].from, "", p))
          /\ Goto(p, "groq")
     ELSE /\ TechnicalDifficulties(p)
          /\ UNCHANGED student_profiles
  /\ UNCHANGED <<customer_conversations, provider, nextId>>
  /\ HookFrame

PC_Groq(p, outcome) ==
  /\ InEducation(p, "groq")
  /\ outcome = "no_user" => ~handlers[p].hasUserId
  /\ IF outcome = "ok"
     THEN Goto(p, "saveMessage")
     ELSE TechnicalDifficulties(p)
  /\ UNCHANGED <<customer_conversations, student_profiles, provider, nextId>>
  /\ HookFrame

\* "1. Save the incoming message": the result of the insert is not read
PC_SaveMessage(p, storeOk) ==
  /\ InEducation(p, "saveMessage")
  /\ IF storeOk
     THEN /\ customer_conversations' = Append(customer_conversations,
                ConversationRow(p, handlers[p].from, handlers[p].text,
                                "user", ""))
          /\ handlers' = [handlers EXCEPT ![p].pc = "analyze",
                                          ![p].savedUser = @ + 1]
     ELSE /\ Goto(p, "analyze")
          /\ UNCHANGED customer_conversations
  /\ UNCHANGED <<student_profiles, provider, nextId>>
  /\ HookFrame

\* analyzeStudentMessage
PC_Analyze(p, ok) ==
  /\ InEducation(p, "analyze")
  /\ IF ok THEN Goto(p, "llm") ELSE TechnicalDifficulties(p)
  /\ UNCHANGED <<customer_conversations, student_profiles, provider, nextId>>
  /\ HookFrame

PC_LLM(p, outcome) ==
  /\ InEducation(p, "llm")
  /\ IF outcome = "throws"
     THEN handlers' = [handlers EXCEPT ![p].pc = "done", ![p].llm = outcome,
                         ![p].response = TechnicalReply,
                         ![p].result = Returned(TRUE)]
     ELSE handlers' = [handlers EXCEPT ![p].pc = "saveBot", ![p].llm = outcome,
                         ![p].response = ReplyOf(outcome)]
  /\ UNCHANGED <<customer_conversations, student_profiles, provider, nextId>>
  /\ HookFrame

\* "4. Save and return the response": the result of the insert is not read
\* intent: analysis.subject, the school subject the analyst named
PC_SaveBot(p, storeOk) ==
  /\ InEducation(p, "saveBot")
  /\ IF storeOk
     THEN /\ customer_conversations' = Append(customer_conversations,
                ConversationRow(p, handlers[p].from, handlers[p].response,
                                "bot", "subject"))
          /\ handlers' = [handlers EXCEPT ![p].pc = "done",
                            ![p].savedBot = @ + 1,
                            ![p].result = Returned(TRUE)]
     ELSE /\ Finish(p, Returned(TRUE))
          /\ UNCHANGED customer_conversations
  /\ UNCHANGED <<student_profiles, provider, nextId>>
  /\ HookFrame

(***************************************************************************)
(* handleIncomingMessage (lib/whatsapp.tsx): the inbound message is saved, *)
(* a chatbot of lib/ produces the reply, and the reply is sent with        *)
(* sendWhatsAppResponse; any failure is logged and thrown again            *)
(***************************************************************************)
HIM == "handleIncomingMessage"

\* the rows the chatbot of lib/ leaves in the store for its reply
ChatbotReplyRows(from, reply) ==
  IF reply = <<>> THEN <<>>
  ELSE <<ConversationRow(HIM, from, reply, "bot", "")>>

HandledIncoming(outcome, err, cfg) ==
  [op |-> HIM, outcome |-> outcome, error |-> err, logged |-> <<>>,
   userId |-> NoUser, cfg |-> cfg]

\* the function runs up to the await on the provider inside
\* sendWhatsAppResponse(message.from, botResponse.content); the result of
\* the insert of the inbound message is not looked at
handleIncomingMessage(from, text, reply, storeOk) ==
  /\ call = Idle
  /\ ncalls < MaxCalls
  /\ ncalls' = ncalls + 1
  /\ IF text = <<>>
     THEN \* message without text body: return
          /\ last' = HandledIncoming("returned", "", Unresolved)
          /\ UNCHANGED <<customer_conversations, call, provider>>
     ELSE /\ customer_conversations' =
               customer_conversations
                 \o (IF storeOk
                     THEN <<ConversationRow(HIM, from, text, "user", "")>>
                     ELSE <<>>)
                 \o ChatbotReplyRows(from, reply)
          /\ LET err == ResponsePrepareError(reply, NoMedia, NoUser, "ok")
                 sanitized == sanitizeWhatsAppMessage(reply)
             IN  IF reply = <<>>
                 THEN \* no content: nothing is sent
                      /\ last' = HandledIncoming("returned", "", Unresolved)
                      /\ UNCHANGED <<call, provider>>
                 ELSE IF err # ""
                 THEN \* catch of sendWhatsAppResponse, then catch: throw error
                      /\ last' = HandledIncoming("threw", err,
                                    IF SanitizeThrows(reply) THEN Unresolved
                                    ELSE getWhatsAppConfig(NoUser))
                      /\ UNCHANGED <<call, provider>>
                 ELSE /\ call' = [op |-> "sendWhatsAppResponse", to |-> from,
                                  sanitized |-> sanitized, media |-> NoMedia,
                                  at |-> Len(provider) + 1,
                                  logs0 |-> Len(message_logs),
                                  userId |-> NoUser,
                                  cfg |-> getWhatsAppConfig(NoUser)]
                      /\ provider' = Append(provider,
                           ProviderCall("sendWhatsAppResponse",
                                        ResponsePayload(from, sanitized, NoMedia),
                                        reply))
                      /\ UNCHANGED last
  /\ UNCHANGED <<user_whatsapp_config, message_logs, nextId, nupdates,
                 batchVars, student_profiles, handlers>>

(***************************************************************************)
(* Specification of the single-message send paths and the status updates   *)
(***************************************************************************)
\* configuration rows the operator may have stored: u2's row is the more
\* recently updated one
ConfigRow(active, complete, updated, number) ==
  [is_active |-> active, complete |-> complete, updated_at |-> updated,
   phone_number_id |-> number]

\* in the last table the two users have registered the same number
ConfigTables ==
  {[u \in Users |-> ConfigRow(FALSE, TRUE, 1, u)],
   [u \in Users |-> IF u = "u1" THEN ConfigRow(TRUE, TRUE, 1, u)
                                ELSE ConfigRow(FALSE, TRUE, 2, u)],
   [u \in Users |-> IF u = "u1" THEN ConfigRow(TRUE, FALSE, 1, u)
                                ELSE ConfigRow(TRUE, TRUE, 2, u)],
   [u \in Users |-> IF u = "u1" THEN ConfigRow(TRUE, TRUE, 1, u)
                                ELSE ConfigRow(TRUE, FALSE, 2, u)],
   [u \in Users |-> IF u = "u1" THEN ConfigRow(TRUE, TRUE, 2, "u1")
                                ELSE ConfigRow(FALSE, TRUE, 1, "u1")]}

EdgeMessages ==
  {[phoneNumber |-> P_CANON, message |-> M_MARKUP, media |-> NoMedia,
    variables |-> <<>>],
   [phoneNumber |-> P_CANON, message |-> M_PLAIN,
    media |-> [type |-> "image", url |-> "https"], variables |-> <<>>]}

EdgeMessageLists ==
  {<<>>} \cup UNION {[1..n -> EdgeMessages] : n \in 1..MaxEdgeBatch}

\* no send has been made yet
SendUnused ==
  /\ user_whatsapp_config \in ConfigTables
  /\ message_logs = <<>>
  /\ provider = <<>>
  /\ nextId = 1
  /\ call = Idle
  /\ last = NoLast
  /\ ncalls = 0
  /\ nupdates = 0

BatchUnused == batch = NoBatch /\ tasks = <<>> /\ now = 0

HookUnused ==
  /\ customer_conversations = <<>>
  /\ student_profiles = <<>>
  /\ handlers = [p \in Procs |-> IdleHandler]

SendInit == SendUnused /\ BatchUnused /\ HookUnused

\* outcomes of one send of the edge function: accepted or rejected
EdgeOutcomes == {"ok", "rejected"}

SendNext ==
  \/ \E to \in {P_CANON}, message \in SampleMessages,
        media \in SampleMedia, userId \in Users \cup {NoUser},
        probe \in ProbeOutcomes :
       SendResponseBegin(to, message, media, userId, probe)
  \/ \E answer \in ProviderOutcomes : SendResponseEnd(answer)
  \/ \E to \in {P_CANON}, userId \in Users \cup {NoUser} :
       SendTemplateBegin(to, userId)
  \/ \E answer \in ProviderOutcomes : SendTemplateEnd(answer)
  \/ \E tokenFormatOk \in BOOLEAN, answer \in ProviderOutcomes :
       initializeWhatsAppWebhook(tokenFormatOk, answer)
  \/ \E text \in {M_EMPTY, M_PLAIN}, reply \in {M_EMPTY, M_PLAIN},
        storeOk \in BOOLEAN :
       handleIncomingMessage(P_CANON, text, reply, storeOk)
  \/ \E method \in {"OPTIONS", "GET", "POST"},
        body \in EdgeBodies(EdgeMessageLists) : EdgeBegin(method, body)
  \/ \E i \in EdgeCalls, answer \in EdgeOutcomes : EdgeAnswer(i, answer)

(***************************************************************************)
(* Specification of the DeliveryRecord life cycle: records are created by  *)
(* the send paths and changed by status-update events                      *)
(***************************************************************************)
StatusNext ==
  \/ \E media \in {NoMedia, [type |-> "image", url |-> "https"]},
        probe \in ProbeOutcomes :
       SendResponseBegin(P_CANON, M_PLAIN, media, NoUser, probe)
  \/ \E answer \in ProviderOutcomes : SendResponseEnd(answer)
  \/ SendTemplateBegin(P_CANON, NoUser)
  \/ \E answer \in ProviderOutcomes : SendTemplateEnd(answer)
  \/ \E messageId \in 0..nextId, status \in StatusInputs,
        storeOk \in BOOLEAN :
       processStatusUpdate(messageId, status, storeOk)
  \/ \E messageId \in 0..nextId, status \in StatusInputs,
        storeOk \in BOOLEAN :
       ChatbotStatusUpdate(messageId, status, storeOk)

(***************************************************************************)
(* Specification of one sendWhatsAppMessages call                          *)
(***************************************************************************)
BatchMessage(phoneNumber, message, variables, media) ==
  [phoneNumber |-> phoneNumber, message |-> message, variables |-> variables,
   media |-> media]

M_GREETING == <<"h", "i", " ", "{", "{", "n", "}", "}">>
V_NAME == <<[name |-> <<"n">>, value |-> <<"<", "i", ">", "A">>]>>

BatchMessages ==
  {BatchMessage(P_CANON, M_MARKUP, <<>>, NoMedia),
   BatchMessage(P_PLUS0, M_PLAIN, <<>>, NoMedia),
   BatchMessage(P_LOCAL, M_GREETING, V_NAME,
                [type |-> "image", url |-> "https"]),
   BatchMessage(P_CANON, M_TAGONLY, <<>>, NoMedia)}

BatchInputs == {<<>>} \cup UNION {[1..n -> BatchMessages] : n \in 1..MaxBatch}

BatchInit == SendUnused /\ BatchUnused /\ HookUnused

BatchNext ==
  \/ \E messages \in BatchInputs, userId \in Users \cup {NoUser} :
       BatchStart(messages, userId)
  \/ Tick
  \/ \E i \in DOMAIN tasks : TimerFires(i)
  \/ \E i \in DOMAIN tasks, probe \in ProbeOutcomes : ProbeAnswers(i, probe)
  \/ \E i \in DOMAIN tasks, answer \in ProviderOutcomes :
       ProviderAnswers(i, answer)
  \/ BatchFinish

(***************************************************************************)
(* Specification of the inbound handlers: each process of Procs runs one   *)
(* handling, and the steps of the two handlings interleave at every await  *)
(***************************************************************************)
\* requests as <<method, body is JSON>>: a preflight without body, a POST
\* with or without a JSON body, and a PUT with a JSON body, which stands for
\* the methods other than OPTIONS and POST
Requests ==
  {<<"OPTIONS", FALSE>>, <<"PUT", TRUE>>, <<"POST", TRUE>>, <<"POST", FALSE>>}

HookTexts == {M_EMPTY, M_PLAIN}

\* the body fields of an inbound message: complete, or one field missing
HookBodies == {<<P_CANON, M_PLAIN>>, <<P_EMPTY, M_PLAIN>>, <<P_CANON, M_EMPTY>>}

PathTypes == {"client", "education", "webhook"}

\* requests to the path-typed handler as <<method, body is JSON, path,
\* from, text, credentials given>>; the PUT carries a complete message
P2Requests ==
  {<<rq[1], rq[2], chatbotType, b[1], b[2], creds>> :
     rq \in Requests \ {<<"PUT", TRUE>>}, chatbotType \in PathTypes,
     b \in HookBodies, creds \in BOOLEAN}
    \cup {<<"PUT", TRUE, "client", P_CANON, M_PLAIN, FALSE>>}

\* a profile linked to a user before any handling; without it no handling
\* of the webhook-handler gets past the profile step
LinkedProfile == ProfileRow(P_CANON, "u1", "seed")

HookInit ==
  /\ user_whatsapp_config = <<>>
  /\ message_logs = <<>>
  /\ provider = <<>>
  /\ nextId = 1
  /\ call = Idle
  /\ last = NoLast
  /\ ncalls = 0
  /\ nupdates = 0
  /\ BatchUnused
  /\ customer_conversations = <<>>
  /\ student_profiles \in {<<>>, <<LinkedProfile>>}
  /\ handlers = [p \in Procs |-> IdleHandler]

HookNext ==
  \E p \in Procs :
    \/ \E rq \in Requests, b \in HookBodies :
         WH_Receive(p, rq[1], rq[2], b[1], b[2])
    \/ \E storeOk \in BOOLEAN : WH_SaveUser(p, storeOk)
    \/ \E storeOk \in BOOLEAN : WH_SelectProfile(p, storeOk)
    \/ \E storeOk \in BOOLEAN : WH_InsertProfile(p, storeOk)
    \/ \E outcome \in GroqOutcomes : WH_Groq(p, outcome)
    \/ \E outcome \in LlmOutcomes : WH_LLM(p, outcome)
    \/ \E storeOk \in BOOLEAN : WH_SaveBot(p, storeOk)
    \/ \E rq \in Requests, fieldsOk \in BOOLEAN, text \in HookTexts :
         AC_Receive(p, rq[1], rq[2], fieldsOk, P_CANON, text)
    \/ \E storeOk \in BOOLEAN : AC_SaveUser(p, storeOk)
    \/ \E outcome \in GroqOutcomes : AC_Groq(p, outcome)
    \/ \E outcome \in LlmOutcomes : AC_LLM(p, outcome)
    \/ \E rq \in P2Requests :
         P2_Receive(p, rq[1], rq[2], rq[3], rq[4], rq[5], rq[6], now - 1)
    \/ \E storeOk \in BOOLEAN : P2_SaveUser(p, storeOk)
    \/ \E storeOk \in BOOLEAN : P2_SelectProfile(p, storeOk)
    \/ \E storeOk \in BOOLEAN : P2_InsertProfile(p, storeOk)
    \/ \E outcome \in GroqOutcomes : P2_Groq(p, outcome)
    \/ \E outcome \in LlmOutcomes : P2_LLM(p, outcome)
    \/ \E storeOk \in BOOLEAN : P2_SaveBot(p, storeOk)
    \/ \E answer \in {"ok", "network_error"} : P2_Send(p, answer)
    \/ \E b \in HookBodies : PW_Receive(p, b[1], b[2], now - 1)
    \/ \E storeOk \in BOOLEAN : PW_SaveUser(p, storeOk)
    \/ \E storeOk \in BOOLEAN : PW_LookupProfile(p, storeOk)
    \/ PC_Call(p, P_CANON, M_PLAIN)
    \/ \E subscriptionOk \in BOOLEAN, storeOk \in BOOLEAN :
         PC_GetProfile(p, subscriptionOk, storeOk)
    \/ \E storeOk \in BOOLEAN : PC_CreateProfile(p, storeOk)
    \/ \E outcome \in GroqOutcomes : PC_Groq(p, outcome)
    \/ \E storeOk \in BOOLEAN : PC_SaveMessage(p, storeOk)
    \/ \E ok \in BOOLEAN : PC_Analyze(p, ok)
    \/ \E outcome \in LlmOutcomes : PC_LLM(p, outcome)
    \/ \E storeOk \in BOOLEAN : PC_SaveBot(p, storeOk)

(***************************************************************************)
(* Specification of one turn: a single handling by a handler that stores   *)
(* the time the provider gave, which may be behind or ahead of the clock   *)
(* of the server                                                           *)
(***************************************************************************)
Timestamps == {now - 1, now + 1}

\* the sender address as the provider gives it: canonical, absent, or in
\* national form
TurnBodies == HookBodies \cup {<<P_LOCAL, M_PLAIN>>}

TurnNext ==
  \E p \in {"p1"} :
    \/ \E rq \in P2Requests, timestamp \in Timestamps :
         P2_Receive(p, rq[1], rq[2], rq[3], rq[4], rq[5], rq[6], timestamp)
    \/ \E storeOk \in BOOLEAN : P2_SaveUser(p, storeOk)
    \/ \E storeOk \in BOOLEAN : P2_SelectProfile(p, storeOk)
    \/ \E storeOk \in BOOLEAN : P2_InsertProfile(p, storeOk)
    \/ \E outcome \in GroqOutcomes : P2_Groq(p, outcome)
    \/ \E outcome \in LlmOutcomes : P2_LLM(p, outcome)
    \/ \E storeOk \in BOOLEAN : P2_SaveBot(p, storeOk)
    \/ \E answer \in {"ok", "network_error"} : P2_Send(p, answer)
    \/ \E b \in TurnBodies, timestamp \in Timestamps :
         PW_Receive(p, b[1], b[2], timestamp)
    \/ \E storeOk \in BOOLEAN : PW_SaveUser(p, storeOk)
    \/ \E storeOk \in BOOLEAN : PW_LookupProfile(p, storeOk)
    \/ \E subscriptionOk \in BOOLEAN, storeOk \in BOOLEAN :
         PC_GetProfile(p, subscriptionOk, storeOk)
    \/ \E storeOk \in BOOLEAN : PC_CreateProfile(p, storeOk)
    \/ \E outcome \in GroqOutcomes : PC_Groq(p, outcome)
    \/ \E storeOk \in BOOLEAN : PC_SaveMessage(p, storeOk)
    \/ \E ok \in BOOLEAN : PC_Analyze(p, ok)
    \/ \E outcome \in LlmOutcomes : PC_LLM(p, outcome)
    \/ \E storeOk \in BOOLEAN : PC_SaveBot(p, storeOk)

(***************************************************************************)
(* Specification of a webhook task and its collaborators: the runtime runs *)
(* every step of the handler that is ready and the record store answers    *)
(* every query, while the LLM may stay silent.  The handlers await          *)
(* groq.chat.completions.create without a timeout or an abort signal, so   *)
(* the task has no step of its own that ends the wait.                     *)
(***************************************************************************)
\* the steps of the task, the runtime and the record store
TaskSteps(p) ==
  \/ \E rq \in Requests, b \in HookBodies :
       WH_Receive(p, rq[1], rq[2], b[1], b[2])
  \/ \E storeOk \in BOOLEAN : WH_SaveUser(p, storeOk)
  \/ \E storeOk \in BOOLEAN : WH_SelectProfile(p, storeOk)
  \/ \E storeOk \in BOOLEAN : WH_InsertProfile(p, storeOk)
  \/ \E outcome \in GroqOutcomes : WH_Groq(p, outcome)
  \/ \E storeOk \in BOOLEAN : WH_SaveBot(p, storeOk)
  \/ \E rq \in Requests, fieldsOk \in BOOLEAN, text \in HookTexts :
       AC_Receive(p, rq[1], rq[2], fieldsOk, P_CANON, text)
  \/ \E storeOk \in BOOLEAN : AC_SaveUser(p, storeOk)
  \/ \E outcome \in GroqOutcomes : AC_Groq(p, outcome)

\* the answer of the LLM to the awaited call, when it comes
LlmAnswers(p) ==
  \/ \E outcome \in LlmOutcomes : WH_LLM(p, outcome)
  \/ \E outcome \in LlmOutcomes : AC_LLM(p, outcome)

WaitNext == \E p \in Procs : TaskSteps(p) \/ LlmAnswers(p)

(***************************************************************************)
(* Specification of the pure functions: each step calls one of them on an  *)
(* input of the bounded input sets and records the outcome in last         *)
(***************************************************************************)
\* longest text and longest phone number enumerated character by character
MaxTextLen == 3
MaxPhoneLen == 3
\* words of the inbound texts given to determineChatbotType
MaxWords == 2

TextAlphabet == {"a", " ", "<", ">", "&", ";"}

ShortTexts == UNION {[1..n -> TextAlphabet] : n \in 0..MaxTextLen}

\* texts around the length limit: n letters, bare or behind a tag
Letter(n) == [i \in 1..n |-> "a"]

LongTexts ==
  {Letter(n) : n \in {MaxMessageLength, MaxMessageLength + 1, 5000}}
    \cup {<<"<", "b", ">">> \o Letter(MaxMessageLength + 1) \o <<" ">>}

\* texts with entity-encoded markup: &lt;b&gt;hi, a&lt;b, &amp;lt;, and an
\* entity inside the letters of another: &a&b;mp;
EntityTexts ==
  {<<"&", "l", "t", ";", "b", "&", "g", "t", ";", "h", "i">>,
   <<"a", "&", "l", "t", ";", "b">>,
   <<"&", "a", "m", "p", ";", "l", "t", ";">>,
   <<"&", "a", "&", "b", ";", "m", "p", ";">>}

SanitizerInputs ==
  ShortTexts \cup SampleMessages \cup LongTexts \cup EntityTexts

\* a call of a function that returned ret or threw
Applied(fn, arg, threw, ret) ==
  [op |-> fn, arg |-> arg, outcome |-> IF threw THEN "threw" ELSE "returned",
   ret |-> ret]

PureFrame ==
  UNCHANGED <<user_whatsapp_config, message_logs, provider, nextId, call,
              ncalls, nupdates, batchVars, hookVars>>

CallSanitizer(m) ==
  /\ last = NoLast
  /\ last' = Applied("sanitizeWhatsAppMessage", m, SanitizeThrows(m),
                     IF SanitizeThrows(m) THEN <<>>
                     ELSE sanitizeWhatsAppMessage(m))
  /\ PureFrame

\* the text a first sanitization returned is sanitized once more, as the
\* send does with a reply that was sanitized when it was prepared
SanitizeAgain ==
  /\ last.op = "sanitizeWhatsAppMessage"
  /\ last.outcome = "returned"
  /\ last' = Applied("sanitizeWhatsAppMessage", last.ret,
                     SanitizeThrows(last.ret),
                     IF SanitizeThrows(last.ret) THEN <<>>
                     ELSE sanitizeWhatsAppMessage(last.ret))
  /\ PureFrame

PureInit ==
  /\ user_whatsapp_config = [u \in Users |-> ConfigRow(FALSE, TRUE, 1, u)]
  /\ message_logs = <<>>
  /\ provider = <<>>
  /\ nextId = 1
  /\ call = Idle
  /\ last = NoLast
  /\ ncalls = 0
  /\ nupdates = 0
  /\ BatchUnused
  /\ HookUnused

PhoneAlphabet == {"+", "0", "2", "4", "a"}

ShortPhones == UNION {[1..n -> PhoneAlphabet] : n \in 0..MaxPhoneLen}

PhoneInputs ==
  ShortPhones \cup {P_CANON, P_LOCAL, P_PLUS0,
                    <<"2", "4", "2", " ", "0", "6">>,
                    <<"(", "0", "6", ")", "-", "1">>,
                    <<"3", "3", "6">>}

CallNormalizer(p) ==
  /\ last = NoLast
  /\ last' = Applied("normalizePhoneNumber", p, FALSE, normalizePhoneNumber(p))
  /\ PureFrame

\* words of inbound texts: keywords of either list in either case, a word
\* of both lists, a keyword inside a longer word, and words of neither
Words ==
  {<<"L", "e", "a", "r", "n">>, <<"é", "c", "o", "l", "e">>,
   <<"Q", "U", "I", "Z">>, <<"j", "e", "u", "x">>,
   <<"q", "u", "e", "s", "t", "i", "o", "n">>,
   <<"h", "e", "l", "l", "o">>, <<"p", "r", "i", "x">>}

RECURSIVE Sentence(_)
Sentence(ws) ==
  IF ws = <<>> THEN <<>>
  ELSE IF Len(ws) = 1 THEN ws[1]
  ELSE ws[1] \o <<" ">> \o Sentence(Tail(ws))

\* every keyword of either list as a whole message
KeywordInputs ==
  {educationKeywords[k] : k \in DOMAIN educationKeywords}
    \cup {quizKeywords[k] : k \in DOMAIN quizKeywords}

ClassifierInputs ==
  {Sentence(ws) : ws \in UNION {[1..n -> Words] : n \in 0..MaxWords}}
    \cup KeywordInputs

CallClassifier(m) ==
  /\ last = NoLast
  /\ last' = Applied("determineChatbotType", m, FALSE, determineChatbotType(m))
  /\ PureFrame

PureNext ==
  \/ \E m \in SanitizerInputs : CallSanitizer(m)
  \/ SanitizeAgain
  \/ \E m \in ClassifierInputs : CallClassifier(m)
  \/ \E p \in PhoneInputs : CallNormalizer(p)

vars == <<sendVars, batchVars, hookVars>>

SpecBatch == BatchInit /\ [][BatchNext]_vars

SpecSend == SendInit /\ [][SendNext]_vars

SpecStatus == SendInit /\ [][StatusNext]_vars

SpecHook == HookInit /\ [][HookNext]_vars

SpecPure == PureInit /\ [][PureNext]_vars

SpecTurn == HookInit /\ [][TurnNext]_vars

\* the runtime and the record store keep the task going; nothing obliges
\* the LLM to answer
WaitFairness == \A p \in Procs : WF_vars(TaskSteps(p))

SpecWait == HookInit /\ [][WaitNext]_vars /\ WaitFairness

(***************************************************************************)
(* Claims                                                                  *)
(***************************************************************************)
InvalidAfterNormalization(msg) ==
  ~phoneRegex(normalizePhoneNumber(msg.phoneNumber))

\* C1: sendWhatsAppMessages returns exactly one MessageResult per input
\* message: when the call has finished the result list is as long as the
\* input list, and every input whose number is invalid after normalization
\* has an error result at its position.
C1_OneResultPerInput ==
  batch.pc = "done" =>
    /\ Len(batch.results) = Len(batch.messages)
    /\ \A i \in DOMAIN batch.messages :
         InvalidAfterNormalization(batch.messages[i]) =>
           batch.results[i].status = "error"

\* C2: every finished call of sendWhatsAppResponse has written exactly one
\* message_logs record: status sent when it returned, status error with the
\* error text when it threw.
C2_OneRecordPerCall ==
  last.op = "sendWhatsAppResponse" =>
    /\ Len(last.logged) = 1
    /\ last.outcome = "returned" => last.logged[1].status = "sent"
    /\ last.outcome = "threw" =>
         /\ last.logged[1].status = "error"
         /\ last.logged[1].error = last.error

\* handlings of the functions that answer a conversation
Responders == {PW, PC, AC, WH}

\* C3: a handling that has persisted the inbound user message persists a
\* bot message for the same conversation before it ends (a finished
\* handling takes no further step, so "eventually" is "by the time it has
\* finished").
C3_UserTurnGetsBotTurn ==
  \A p \in Procs :
    (Finished(p) /\ handlers[p].kind \in Responders
                 /\ handlers[p].savedUser > 0)
      => handlers[p].savedBot > 0

\* C4: when the completion throws or comes back empty, the LLM step of a
\* handler hands the fixed fallback text to the persist step and does not
\* end the handling.
C4_LlmFailureFallsBack ==
  [][\A p \in Procs :
       (/\ handlers[p].kind \in {WH, AC, P2}
        /\ handlers[p].pc = "llm"
        /\ handlers'[p].pc # "llm"
        /\ handlers'[p].llm \in {"throws", "empty"})
       => /\ handlers'[p].pc = "saveBot"
          /\ handlers'[p].response = FallbackReply]_vars

\* q handled the same event as p, after p had finished, and neither saw a
\* store error on its profile lookup
HandledAgain(p, q) ==
  /\ Finished(p) /\ Finished(q)
  /\ p \in handlers[q].after
  /\ handlers[p].kind = handlers[q].kind
  /\ handlers[p].from = handlers[q].from
  /\ handlers[p].text = handlers[q].text
  /\ ~Missing(handlers[p].from, handlers[p].text)
  /\ ~handlers[p].selectFailed /\ ~handlers[q].selectFailed

\* C5: after the same inbound event (same sender, same text) has been
\* handled twice in sequence, student_profiles holds at most one row for
\* that phone number.
C5_ReplayKeepsOneProfile ==
  \A p, q \in Procs :
    (HandledAgain(p, q) /\ handlers[p].kind \in {WH, PW, PC})
      => Cardinality(ProfilesOf(handlers[p].from)) <= 1

\* rows of student_profiles created by the handlings for this phone number
CreatedProfiles(phone) ==
  {i \in ProfilesOf(phone) : student_profiles[i].by \in Procs}

\* C6: whatever the interleaving of two handlings that resolve the student
\* profile (and whose lookups the store answered), at most one
\* student_profiles row is created for a phone number.
C6_AtMostOneProfileCreated ==
  (\A p \in Procs : /\ handlers[p].kind \in {"none", PW, PC, P2}
                    /\ ~handlers[p].selectFailed)
    => Cardinality(CreatedProfiles(P_CANON)) <= 1

\* C7: a status-update event changes the status of a DeliveryRecord only
\* from sent to delivered or from sent to failed.
C7_StatusTransitions ==
  [][\A i \in DOMAIN message_logs :
       message_logs'[i].status # message_logs[i].status =>
         /\ message_logs[i].status = "sent"
         /\ message_logs'[i].status \in {"delivered", "failed"}]_vars

KnownMessageId(messageId) ==
  \E i \in DOMAIN message_logs : message_logs[i].message_id = messageId

StatusUpdateOps == {"processStatusUpdate", "ChatbotStatusUpdate"}

\* C8: a status-update event (messageId and status present) that the store
\* processes and whose messageId matches no message_logs record is answered
\* with success, and no record of message_logs is changed by it.
C8_UnknownIdIsNoOp ==
  [][(/\ nupdates' = nupdates + 1
      /\ last'.messageId # 0
      /\ last'.status # ""
      /\ ~KnownMessageId(last'.messageId))
     => /\ message_logs' = message_logs
        /\ last'.storeOk => last'.success]_vars

\* C8 witness: an event for an unknown id was answered with success while
\* the store holds a record with a message id
C8_Witness ==
  /\ last.op \in StatusUpdateOps
  /\ last.messageId # 0
  /\ last.status # ""
  /\ ~KnownMessageId(last.messageId)
  /\ last.success
  /\ \E i \in DOMAIN message_logs : message_logs[i].message_id # 0

InFlight == {i \in DOMAIN provider : provider[i].state = "in_flight"}

\* C9: within one sendWhatsAppMessages batch at most one provider send call
\* is in flight at any time.
C9_OneSendInFlight == Cardinality(InFlight) <= 1

\* C10: every text body or caption transmitted to the provider is the
\* output of the sanitizer applied to the message content.
C10_BodiesSanitized ==
  \A i \in DOMAIN provider :
    provider[i].payload.hasBody =>
      /\ ~SanitizeThrows(provider[i].raw)
      /\ provider[i].payload.body = sanitizeWhatsAppMessage(provider[i].raw)

\* the fallback of getWhatsAppConfig resolves a configuration, whoever asks
ConfigAvailable == getWhatsAppConfig(NoUser) # NoUser

\* C11: when a sendWhatsAppMessages call has finished, every message whose
\* content is empty after sanitization has an error result, and every other
\* valid message of the same batch was sent to the provider.
C11_EmptyContentRejectedAlone ==
  (batch.pc = "done" /\ ConfigAvailable) =>
    LET valid == ValidMessages(batch.messages)
    IN  \A i, j \in DOMAIN valid :
          (ProcessedThrows(valid[i]) /\ ~ProcessedThrows(valid[j])) =>
            /\ \E r \in DOMAIN batch.results :
                 /\ batch.results[r].status = "error"
                 /\ batch.results[r].phoneNumber = valid[i].phoneNumber
            /\ \E k \in DOMAIN provider :
                 provider[k].payload.to = valid[j].phoneNumber

\* users whose row is active and carries both credentials
UsableUsers ==
  {u \in Users : user_whatsapp_config[u].is_active
                 /\ user_whatsapp_config[u].complete}

MostRecentUsable ==
  CHOOSE u \in UsableUsers :
    \A v \in UsableUsers :
      user_whatsapp_config[v].updated_at <= user_whatsapp_config[u].updated_at

\* the stated precedence: the user's own usable row, else the most recently
\* updated usable row of any user, else none
ConfigPrecedence(userId) ==
  IF userId # NoUser /\ userId \in UsableUsers THEN userId
  ELSE IF UsableUsers # {} THEN MostRecentUsable
  ELSE NoUser

SendOps == {"sendWhatsAppResponse", "sendWhatsAppTemplate", "edge"}

\* C12: every send path that resolved a configuration got the one the
\* precedence names: the user's own active configuration, else the most
\* recently updated active configuration of any user, and none only when
\* no active configuration exists.
C12_ConfigPrecedence ==
  (last.op \in SendOps /\ last.cfg # Unresolved)
    => last.cfg = ConfigPrecedence(last.userId)

\* a call of the client that holds a provider request
ClientSends == {"sendWhatsAppResponse", "sendWhatsAppTemplate"}

\* C13: when the provider rejects a send with the authentication-failure
\* code 190, the configuration row that was used is inactive once the call
\* has ended.
C13_ExpiredTokenDeactivates ==
  [][(/\ call # Idle
      /\ call.op \in ClientSends
      /\ call' = Idle
      /\ provider'[call.at].state = "rejected_190")
     => ~user_whatsapp_config'[call.cfg].is_active]_vars

\* C14: sanitizeWhatsAppMessage never returns the empty string: whenever it
\* returns, the result has at least one character.
C14_SanitizerNeverReturnsEmpty ==
  (last.op = "sanitizeWhatsAppMessage" /\ last.outcome = "returned")
    => last.ret # <<>>

SanitizerReturned ==
  last.op = "sanitizeWhatsAppMessage" /\ last.outcome = "returned"

\* C15: whatever sanitizeWhatsAppMessage returns has at most 4096
\* characters, and when the cleaned text is longer than 4096 characters the
\* result is the first 4093 cleaned characters followed by "...", 4096
\* characters in all.
C15_LengthLimit ==
  SanitizerReturned =>
    /\ Len(last.ret) <= MaxMessageLength
    /\ Len(CleanMessage(last.arg)) > MaxMessageLength =>
         /\ Len(last.ret) = MaxMessageLength
         /\ SubSeq(last.ret, 1, TruncatedLength)
              = SubSeq(CleanMessage(last.arg), 1, TruncatedLength)
         /\ SubSeq(last.ret, TruncatedLength + 1, Len(last.ret)) = Ellipsis

\* C15 witness: a text whose cleaned form differs from it and is longer
\* than the limit was sanitized and came back cut
C15_Witness ==
  /\ SanitizerReturned
  /\ CleanMessage(last.arg) # last.arg
  /\ Len(CleanMessage(last.arg)) > MaxMessageLength
  /\ Len(last.ret) = MaxMessageLength

\* positions of the batch whose normalized number fails the validity test
DroppedEntries(messages) ==
  {i \in DOMAIN messages :
     ~phoneRegex(normalizePhoneNumber(messages[i].phoneNumber))}

\* C16: every provider call of sendWhatsAppMessages is addressed to a number
\* matching ^\+[1-9]\d{1,14}$ and no delivery record is written for any other
\* number; a batch holding a valid entry beside an invalid one is not failed
\* for want of valid numbers, and returns the results of its valid entries.
C16_OnlyValidRecipients ==
  /\ \A k \in DOMAIN provider : phoneRegex(provider[k].payload.to)
  /\ \A k \in DOMAIN message_logs : phoneRegex(message_logs[k].phone_number)
  /\ (/\ batch.pc = "done"
      /\ DroppedEntries(batch.messages) # {}
      /\ DroppedEntries(batch.messages) # DOMAIN batch.messages) =>
       \A r \in DOMAIN batch.results :
         batch.results[r].error # "No valid phone numbers found"

\* C16 witness: a finished batch with an invalid entry and a valid one whose
\* send the provider accepted
C16_Witness ==
  /\ batch.pc = "done"
  /\ DroppedEntries(batch.messages) # {}
  /\ \E r \in DOMAIN batch.results : batch.results[r].status = "success"
  /\ \E k \in DOMAIN provider : provider[k].state = "ok"

\* the phone number with everything but digits and "+" removed
DigitsAndPlus(p) == SelectSeq(p, LAMBDA c : c \in Digits \cup {"+"})

StartsWithCallingCode(c) ==
  \E code \in countryCodeMap : StartsWith(c, <<code[1], code[2], code[3]>>)

\* C17: normalizePhoneNumber always returns, and returns "" for the empty
\* input; otherwise, on the cleaned string, the first matching rule decides:
\* a leading "+" leaves it unchanged, a leading calling code of the table
\* gets "+" prepended, a leading "0" is replaced by "+242", and anything
\* else gets "+242" prepended.
C17_NormalizationRules ==
  last.op = "normalizePhoneNumber" =>
    /\ last.outcome = "returned"
    /\ LET c == DigitsAndPlus(last.arg)
       IN  last.ret =
             IF last.arg = <<>> THEN <<>>
             ELSE IF StartsWith(c, <<"+">>) THEN c
             ELSE IF StartsWithCallingCode(c) THEN <<"+">> \o c
             ELSE IF StartsWith(c, <<"0">>) THEN <<"+", "2", "4", "2">> \o Tail(c)
             ELSE <<"+", "2", "4", "2">> \o c

\* C17 witness: a number written with a separator and a trunk 0 was
\* normalized
C17_Witness ==
  /\ last.op = "normalizePhoneNumber"
  /\ DigitsAndPlus(last.arg) # last.arg
  /\ StartsWith(DigitsAndPlus(last.arg), <<"0">>)
  /\ Len(last.ret) = Len(DigitsAndPlus(last.arg)) + 3

\* the text, lower-cased, contains one of the keywords
ContainsKeyword(text, keywords) ==
  \E k \in DOMAIN keywords : Includes(toLowerCase(text), keywords[k])

\* C18: determineChatbotType returns "education" when the lower-cased text
\* contains an education keyword (also when it contains a quiz keyword as
\* well), else "quiz" when it contains a quiz keyword, else "client".
C18_EducationBeforeQuiz ==
  last.op = "determineChatbotType" =>
    /\ last.outcome = "returned"
    /\ ContainsKeyword(last.arg, educationKeywords) => last.ret = "education"
    /\ (/\ ~ContainsKeyword(last.arg, educationKeywords)
        /\ ContainsKeyword(last.arg, quizKeywords)) => last.ret = "quiz"
    /\ (/\ ~ContainsKeyword(last.arg, educationKeywords)
        /\ ~ContainsKeyword(last.arg, quizKeywords)) => last.ret = "client"

\* C18 witness: a text in capitals holding a keyword of each list was
\* classified
C18_Witness ==
  /\ last.op = "determineChatbotType"
  /\ toLowerCase(last.arg) # last.arg
  /\ ContainsKeyword(last.arg, educationKeywords)
  /\ ContainsKeyword(last.arg, <<quizKeywords[1]>>)
  /\ last.ret = "education"

\* C19: a step in which a send fails on the media url (malformed, or the
\* HEAD probe not answering with success) issues no provider call and writes
\* one message_logs record, of status error.
C19_ProbeFailureRecorded ==
  [][(/\ last' # last
      /\ last'.op = "sendWhatsAppResponse"
      /\ last'.outcome = "threw"
      /\ last'.error = "Invalid media URL")
     => /\ provider' = provider
        /\ Len(message_logs') = Len(message_logs) + 1
        /\ message_logs'[Len(message_logs')].status = "error"]_vars

\* handlings of the functions served over HTTP
WebhookHandlers == {WH, AC, P2}

\* the handling of p has read or written nothing outside the request
Untouched(p) ==
  /\ handlers[p].savedUser = 0
  /\ handlers[p].savedBot = 0
  /\ handlers[p].llm = "none"
  /\ \A k \in DOMAIN customer_conversations :
       customer_conversations[k].by # p

\* C20: a handling of an OPTIONS request ends with 204, a handling of any
\* other request that is not a POST ends with 405, and a handling of a POST
\* whose body is not JSON ends with a JSON error response; none of them
\* crashes or touches the record store, the LLM or the provider.
C20_RejectedBeforeProcessing ==
  \A p \in Procs :
    (/\ handlers[p].kind \in WebhookHandlers
     /\ \/ handlers[p].method # "POST"
        \/ ~handlers[p].parsable) =>
      /\ Finished(p)
      /\ Untouched(p)
      /\ handlers[p].result # Crashed
      /\ handlers[p].method = "OPTIONS" => handlers[p].result = Preflight
      /\ handlers[p].method \notin {"OPTIONS", "POST"} =>
           handlers[p].result = JsonResponse(405, FALSE)
      /\ handlers[p].method = "POST" =>
           /\ handlers[p].result.json
           /\ handlers[p].result.hasError

\* C21: a handling of a POST that did not end in success ended in an HTTP
\* response of status 4xx or 5xx with a JSON body holding an error field;
\* no handling ends with the handler itself rejecting.
C21_FailuresAnsweredInJson ==
  \A p \in Procs :
    (/\ Finished(p)
     /\ handlers[p].kind \in WebhookHandlers
     /\ handlers[p].method = "POST"
     /\ ~handlers[p].result.success) =>
      /\ handlers[p].result # Crashed
      /\ handlers[p].result.json
      /\ handlers[p].result.hasError
      /\ handlers[p].result.http >= 400

\* bot rows written by the handling of p
BotRowsOf(p) ==
  {k \in DOMAIN customer_conversations :
     /\ customer_conversations[k].by = p
     /\ customer_conversations[k].sender = "bot"}

\* C22: a handling by api-chatbot of a valid POST whose inbound save
\* succeeded and whose completion returned a text ends with HTTP 200 and
\* success, having persisted exactly one bot message.
C22_ChatbotAnswersSuccess ==
  \A p \in Procs :
    (/\ Finished(p)
     /\ handlers[p].kind = AC
     /\ handlers[p].savedUser = 1
     /\ handlers[p].llm = "text") =>
      /\ handlers[p].result = JsonResponse(200, TRUE)
      /\ Cardinality(BotRowsOf(p)) = 1

\* the handling of p has read the body of a message event
BodyRead(p) ==
  \/ handlers[p].kind = PW
  \/ /\ handlers[p].kind = WH
     /\ handlers[p].method = "POST"
     /\ handlers[p].parsable
  \/ /\ handlers[p].kind = P2
     /\ handlers[p].method # "OPTIONS"
     /\ handlers[p].parsable

\* C23: a handling of a message event without sender address or without
\* text has ended at once with an error (HTTP 400 in the HTTP handlers,
\* success false in processWebhookMessage) and has written no conversation
\* row and no profile and called neither the LLM nor the provider.
C23_MissingFieldsRejected ==
  \A p \in Procs :
    (/\ BodyRead(p)
     /\ handlers[p].from = <<>> \/ handlers[p].text = <<>>) =>
      /\ Finished(p)
      /\ Untouched(p)
      /\ \A k \in DOMAIN student_profiles : student_profiles[k].by # p
      /\ handlers[p].response = <<>>
      /\ handlers[p].result = IF handlers[p].kind = PW THEN Returned(FALSE)
                              ELSE JsonResponse(400, FALSE)

\* C23 witness: an event with a sender address and no text was rejected by
\* the webhook-handler after another handling had written the store
C23_Witness ==
  \E p \in Procs :
    /\ handlers[p].kind = WH
    /\ BodyRead(p)
    /\ handlers[p].from # <<>>
    /\ handlers[p].text = <<>>
    /\ handlers[p].result = JsonResponse(400, FALSE)
    /\ handlers[p].after # {}
    /\ customer_conversations # <<>>

\* C24: a step in which the save of a conversation message fails (the
\* handling moves on and no row is written) does not end the handling when
\* the message is the inbound one, and ends it with a success response when
\* the message is the bot's reply.
C24_SaveFailureSwallowed ==
  [][\A p \in Procs :
       (/\ handlers[p].kind \in {WH, PW}
        /\ handlers[p].pc \in {"saveUser", "saveBot"}
        /\ handlers'[p] # handlers[p]
        /\ customer_conversations' = customer_conversations) =>
         /\ handlers[p].pc = "saveUser" => handlers'[p].pc # "done"
         /\ handlers[p].pc = "saveBot" => handlers'[p].result.success]_vars

\* C25: a step in which a handling posts the bot's reply to the provider
\* and the delivery fails writes a message_logs record of status error and
\* leaves the handling with the bot message saved and without a success
\* response.
C25_DeliveryFailureReported ==
  [][\A p \in Procs :
       (/\ handlers[p].pc = "send"
        /\ handlers'[p] # handlers[p]
        /\ Len(provider') = Len(provider) + 1
        /\ provider'[Len(provider')].state # "ok") =>
         /\ handlers'[p].savedBot = 1
         /\ ~handlers'[p].result.success
         /\ Len(message_logs') = Len(message_logs) + 1
         /\ message_logs'[Len(message_logs')].status = "error"]_vars

\* C26: handleIncomingMessage, called with a text while no configuration
\* is resolvable, makes no provider call, leaves the bot's reply in the
\* conversation store and returns without throwing.
C26_NoCredentialsStillSucceeds ==
  (/\ last.op = HIM
   /\ last.cfg = NoUser) =>
    /\ \A k \in DOMAIN provider : provider[k].path # "sendWhatsAppResponse"
    /\ \E k \in DOMAIN customer_conversations :
         customer_conversations[k].sender = "bot"
    /\ last.outcome = "returned"

\* rows of the conversation store written by the handling of p for sender
RowsOf(p, sender) ==
  {k \in DOMAIN customer_conversations :
     /\ customer_conversations[k].by = p
     /\ customer_conversations[k].sender = sender}

\* C27: the created_at of every bot message is greater than or equal to
\* the created_at of the user message of the same handling, whatever
\* timestamp the provider gave for the inbound event.
C27_BotNotBeforeUser ==
  \A p \in Procs :
    \A u \in RowsOf(p, "user"), b \in RowsOf(p, "bot") :
      customer_conversations[b].created_at
        >= customer_conversations[u].created_at

\* C28: every row of the conversation store has a phone_number of the
\* canonical form ^\+[1-9]\d{1,14}$.
C28_CanonicalPhoneStored ==
  \A k \in DOMAIN customer_conversations :
    phoneRegex(customer_conversations[k].phone_number)

\* C29: a step changes a row of user_whatsapp_config only by setting
\* is_active from true to false (with its updated_at), and only when the
\* provider has rejected the token; no step makes an inactive row active.
C29_ConfigOnlyDeactivated ==
  [][\A u \in Users :
       user_whatsapp_config'[u] # user_whatsapp_config[u] =>
         /\ user_whatsapp_config[u].is_active
         /\ ~user_whatsapp_config'[u].is_active
         /\ user_whatsapp_config'[u].complete = user_whatsapp_config[u].complete
         /\ user_whatsapp_config'[u].phone_number_id
              = user_whatsapp_config[u].phone_number_id
         /\ last'.error = "Token expired"]_vars

\* positions of the rows of store that handling p wrote for sender
Turns(store, p, sender) ==
  {k \in DOMAIN store : store[k].by = p /\ store[k].sender = sender}

\* C30: every step leaves the rows already in customer_conversations as
\* they are, and after it each handling has written at most one user row
\* and at most one bot row, the bot row after the user row.
C30_OneUserThenOneBot ==
  [][/\ Len(customer_conversations') >= Len(customer_conversations)
     /\ SubSeq(customer_conversations', 1, Len(customer_conversations))
          = customer_conversations
     /\ \A p \in Procs :
          /\ Cardinality(Turns(customer_conversations', p, "user")) <= 1
          /\ Cardinality(Turns(customer_conversations', p, "bot")) <= 1
          /\ \A u \in Turns(customer_conversations', p, "user"),
                b \in Turns(customer_conversations', p, "bot") : u < b]_vars

\* the closed set of intents; "" stands for null
Intents == {"client", "education", "quiz"}

\* C31: every row of customer_conversations has an intent that is null or
\* one of client, education, quiz, and the intent of a bot row is the label
\* that selected the responder of its handling.
C31_IntentInClosedSet ==
  \A k \in DOMAIN customer_conversations :
    LET row == customer_conversations[k] IN
      /\ row.intent \in Intents \cup {""}
      /\ (row.sender = "bot" /\ row.by \in Procs)
           => row.intent = handlers[row.by].ctype

\* C32: every webhook task that has received a request eventually ends
\* with a response, also when the LLM never answers the awaited call.
C32_TaskEventuallyAnswers ==
  \A p \in Procs : (handlers[p].pc # "idle") ~> Finished(p)

\* the media types of the provider send API
MediaTypes == {"image", "video", "document"}

\* C33: every message payload handed to the provider send API has type
\* text exactly when it carries text.body, and a media type exactly when it
\* carries the media object of that type with a link.
C33_PayloadMatchesType ==
  \A k \in DOMAIN provider :
    provider[k].path \in {"sendWhatsAppResponse", "sendWhatsAppMessages", "edge"}
      => LET payload == provider[k].payload IN
           /\ payload.type = "text" <=> payload.hasText
           /\ payload.type \in MediaTypes <=> payload.mediaKey = "link"

\* C34: a message that is exactly one keyword of the education list is
\* classified education, and a message that is exactly one keyword of the
\* quiz list is classified quiz.
C34_EveryKeywordHasItsLabel ==
  last.op = "determineChatbotType" =>
    /\ \A k \in DOMAIN educationKeywords :
         last.arg = educationKeywords[k] => last.ret = "education"
    /\ \A k \in DOMAIN quizKeywords :
         last.arg = quizKeywords[k] => last.ret = "quiz"

\* C35: the result of normalizePhoneNumber holds only digits and at most
\* one plus sign, which is its first character.
C35_PlusOnlyLeading ==
  last.op = "normalizePhoneNumber" =>
    \A i \in DOMAIN last.ret :
      last.ret[i] \in Digits \/ (last.ret[i] = "+" /\ i = 1)

\* C36: a step that sanitizes the text a sanitization has just returned
\* does not throw and returns that text unchanged.
C36_SanitizerIdempotent ==
  [][(/\ SanitizerReturned
      /\ last'.op = "sanitizeWhatsAppMessage"
      /\ last'.arg = last.ret)
       => (last'.outcome = "returned" /\ last'.ret = last.ret)]_vars

\* C37: the text sanitizeWhatsAppMessage returns holds neither "<" nor ">".
C37_NoAngleBrackets ==
  SanitizerReturned =>
    \A i \in DOMAIN last.ret : last.ret[i] \notin {"<", ">"}

\* C38: normalizePhoneNumber applied to an input without any digit returns
\* nothing that the send validation ^\+[1-9]\d{1,14}$ accepts.
C38_NoDigitsNoRecipient ==
  (/\ last.op = "normalizePhoneNumber"
   /\ \A i \in DOMAIN last.arg : last.arg[i] \notin Digits)
    => ~phoneRegex(last.ret)

\* an active row with both an access token and a phone number id exists
CompleteActiveRowExists ==
  \E u \in Users :
    user_whatsapp_config[u].is_active /\ user_whatsapp_config[u].complete

\* C39: a send whose call of getWhatsAppConfig threw found no active
\* complete row in user_whatsapp_config: whenever one exists, the call
\* returns a configuration.
C39_ConfigFoundWhenOneExists ==
  (/\ last.op \in {"sendWhatsAppResponse", "sendWhatsAppTemplate"}
   /\ last.cfg = NoUser)
    => ~CompleteActiveRowExists
====
